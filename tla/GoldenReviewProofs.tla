-------------------------- MODULE GoldenReviewProofs --------------------------
(***************************************************************************)
(* Proofs about the review of candidates, for any queue, any categories    *)
(* and any number of sessions and crashes: the human gate, alone and with  *)
(* the generator that rewrites the queue under an open session, the case   *)
(* numbers, the decisions that saves keep, the agreement of the queue with *)
(* the golden files, the summary's counts; and that the generator picks    *)
(* chunks fairly and writes no candidate twice.                            *)
(***************************************************************************)
EXTENDS Expansion, FiniteSetTheorems, WellFoundedInduction, TLAPS

\* A golden file is only opened for a candidate the reviewer said yes to.
GateInv ==
    /\ DOMAIN golden = Category
    /\ pc = "write" => This.question \in approved
    /\ GateKept

LEMMA GateInit == Init => GateInv
<1> SUFFICES ASSUME Init PROVE GateInv
  OBVIOUS
<1> DEFINE F == {{[number |-> n, question |-> "seed"] : n \in ns} : ns \in SUBSET (1 .. MaxNumber)}
<1>1. golden \in [Category -> F]
  BY DEF Init
<1>2. \A cases \in F : \A case \in cases : case.question = "seed"
  OBVIOUS
<1> HIDE DEF F
<1>3. pc = "closed"
  BY DEF Init
<1> QED
  BY <1>1, <1>2, <1>3 DEF GateInv, GateKept

\* A step that leaves the golden files alone, and opens none.
LEMMA QuietKeeps ==
    ASSUME GateInv, UNCHANGED golden, approved \subseteq approved',
           pc' = "write" => This'.question \in approved'
    PROVE  GateInv'
  BY DEF GateInv, GateKept

\* The keys either decide without opening a file or approve what they open.
LEMMA KeyKeeps ==
    ASSUME GateInv, NEW key, Key(key)
    PROVE  GateInv'
<1>1. CASE BeginAccept
  <2>1. UNCHANGED <<golden, mem, todo, pos>> /\ approved' = approved \cup {This.question}
    BY <1>1 DEF BeginAccept, session
  <2>2. This' = This
    BY <2>1 DEF This
  <2> QED
    BY <2>1, <2>2, QuietKeeps
<1>2. CASE \E status \in {"skipped", "flagged"} :
             Decide({pos}, status, status) /\ UNCHANGED approved
  <2>1. UNCHANGED <<golden, approved>> /\ pc' = "save"
    BY <1>2 DEF Decide, files
  <2> QED
    BY <2>1, QuietKeeps
<1> QED
  BY <1>1, <1>2 DEF Key

LEMMA WriteKeeps ==
    ASSUME GateInv, WriteGolden
    PROVE  GateInv'
<1> DEFINE q == This.question
           new == [number |-> NextNumber(CategoryOf[q]), question |-> q]
<1>1. /\ q \in approved
      /\ golden' = [golden EXCEPT ![CategoryOf[q]] = @ \cup {new}]
      /\ pc' = "save" /\ approved' = approved
  BY DEF GateInv, WriteGolden, history
<1>2. new.question = q
  OBVIOUS
<1> HIDE DEF q, new
<1>3. \A c \in Category : \A case \in golden'[c] :
        case \in golden[c] \/ (case = new /\ c = CategoryOf[q])
  BY <1>1 DEF GateInv
<1>4. GateKept'
  BY <1>1, <1>2, <1>3 DEF GateInv, GateKept
<1> QED
  BY <1>1, <1>4 DEF GateInv

LEMMA GateNext == GateInv /\ [Next]_vars => GateInv'
<1> SUFFICES ASSUME GateInv, [Next]_vars PROVE GateInv'
  OBVIOUS
<1>1. ASSUME NEW x \in Question, Capture(x) PROVE GateInv'
  <2>1. UNCHANGED <<golden, approved, pc, mem, todo, pos>>
    BY <1>1 DEF Capture, session
  <2> QED
    BY <2>1, QuietKeeps DEF GateInv, This
<1>2. CASE Start \/ Present \/ Finish
  <2>1. UNCHANGED <<golden, approved>> /\ pc' # "write"
    BY <1>2 DEF Start, Present, Finish, Close, files, history
  <2> QED
    BY <2>1, QuietKeeps
<1>3. ASSUME NEW key \in {"y", "n", "f", "N", "q", "other"}, Answer(key) PROVE GateInv'
  <2>1. CASE Key(Action(key))
    BY <2>1, KeyKeeps
  <2>2. CASE Decide({pos}, "skipped", "skipped") /\ UNCHANGED approved
    <3>1. UNCHANGED <<golden, approved>> /\ pc' = "save"
      BY <2>2 DEF Decide, files
    <3> QED
      BY <3>1, QuietKeeps
  <2>3. CASE (Close \/ pc' = "confirm") /\ UNCHANGED <<files, approved>>
    <3>1. UNCHANGED <<golden, approved>> /\ pc' # "write"
      BY <2>3 DEF Close, files
    <3> QED
      BY <3>1, QuietKeeps
  <2> QED
    BY <1>3, <2>1, <2>2, <2>3 DEF Answer
<1>4. ASSUME NEW key \in {"y", "n", "f", "N", "q", "other"}, AnswerAgain(key) PROVE GateInv'
  <2>1. CASE Key(key)
    BY <2>1, KeyKeeps
  <2>2. CASE pc' = "save" /\ UNCHANGED <<files, approved>>
    <3>1. UNCHANGED <<golden, approved>> /\ pc' = "save"
      BY <2>2 DEF files
    <3> QED
      BY <3>1, QuietKeeps
  <2> QED
    BY <1>4, <2>1, <2>2 DEF AnswerAgain
<1>5. CASE ConfirmBulk \/ DeclineBulk
  <2>1. UNCHANGED <<golden, approved>> /\ pc' # "write"
    BY <1>5 DEF ConfirmBulk, DeclineBulk, Decide, files
  <2> QED
    BY <2>1, QuietKeeps
<1>6. CASE WriteGolden
  BY <1>6, WriteKeeps
<1>7. CASE BeginSave \/ EndSave \/ Crash
  <2>1. UNCHANGED <<golden, approved>> /\ pc' # "write"
    BY <1>7 DEF BeginSave, EndSave, Crash, history
  <2> QED
    BY <2>1, QuietKeeps
<1>8. CASE UNCHANGED vars
  <2>1. UNCHANGED <<golden, approved, pc, mem, todo, pos>>
    BY <1>8 DEF vars, files, session, history
  <2> QED
    BY <2>1, QuietKeeps DEF GateInv, This
<1> QED
  BY <1>1, <1>2, <1>3, <1>4, <1>5, <1>6, <1>7, <1>8 DEF Next

\* Nothing enters the golden set without the reviewer's yes, nor the file of a
\* category that is not its own, whatever the service captures and wherever a
\* session crashes (ADR-0020's inviolable gate).
THEOREM GateTheorem == Spec => []GateKept
<1>1. GateInv => GateKept
  BY DEF GateInv
<1> QED
  BY <1>1, GateInit, GateNext, PTL DEF Spec

\* The generator leaves the golden files and the session alone.
LEMMA GenerateKeeps ==
    ASSUME GateInv, Generate
    PROVE  GateInv'
<1>1. UNCHANGED <<golden, approved, pc, mem, todo, pos>>
  <2>1. CASE StartExpansion \/ DraftDropped \/ \E q \in Question : Draft(q)
    BY <2>1 DEF StartExpansion, DraftDropped, Draft, vars, files, session, history
  <2>2. CASE BeginWrite \/ EndWrite \/ ExpansionFails
    BY <2>2 DEF BeginWrite, EndWrite, ExpansionFails, session, history
  <2> QED
    BY <2>1, <2>2 DEF Generate
<1> QED
  BY <1>1, QuietKeeps DEF GateInv, This

\* The gate holds though candidates are generated at any moment, and over the
\* decisions of an open session: a draft is never a case.
THEOREM GateOfExpansion == ExpansionSpec => []GateKept
<1>1. ExpansionInit => GateInv
  BY GateInit DEF ExpansionInit
<1>2. ASSUME GateInv, [Generate \/ Review]_allVars PROVE GateInv'
  <2>1. CASE Generate
    BY <1>2, <2>1, GenerateKeeps
  <2>2. CASE Review \/ UNCHANGED allVars
    <3>1. [Next]_vars
      BY <2>2 DEF Review, allVars
    <3> QED
      BY <1>2, <3>1, GateNext
  <2> QED
    BY <1>2, <2>1, <2>2
<1>3. GateInv => GateKept
  BY DEF GateInv
<1> QED
  BY <1>1, <1>2, <1>3, PTL DEF ExpansionSpec

-----------------------------------------------------------------------------
\* The numbers of cases

\* A bounded set of numbers has a greatest one, and Max is it.
LEMMA MaxOfBounded ==
    ASSUME NEW S, S \subseteq Nat, S # {}, NEW b \in Nat, \A n \in S : n <= b
    PROVE  Max(S) \in S /\ \A n \in S : Max(S) >= n
<1> DEFINE Less == {ss \in Nat \X Nat : ss[1] < ss[2]}
           Gaps == {b - n : n \in S}
<1>1. IsWellFoundedOn(Less, Nat)
  BY NatLessThanWellFounded DEF OpToRel
<1>2. \A n \in S : n \in Nat /\ b - n \in Nat
  OBVIOUS
<1>3. Gaps \subseteq Nat /\ Gaps # {}
  BY <1>2
<1>4. PICK x \in Gaps : \A y \in Gaps : <<y, x>> \notin Less
  <2> HIDE DEF Less, Gaps
  <2> QED
    BY <1>1, <1>3, WFMin
<1>5. PICK m \in S : x = b - m
  BY <1>4
<1>6. ASSUME NEW n \in S PROVE m >= n
  <2>1. m \in Nat /\ n \in Nat /\ b - m \in Nat /\ b - n \in Nat
    BY <1>2
  <2>2. b - n \in Gaps
    OBVIOUS
  <2>3. <<b - n, b - m>> \notin Less
    <3> HIDE DEF Less, Gaps
    <3> QED
      BY <1>4, <1>5, <2>2
  <2>4. ~(b - n < b - m)
    BY <2>1, <2>3
  <2> QED
    BY <2>1, <2>4
<1> QED
  BY <1>6 DEF Max

\* Numbers are numbers, bounded in each file, and unique.
NumbersInv ==
    /\ DOMAIN golden = Category
    /\ \A c \in Category : \A case \in golden[c] : case.number \in Nat
    /\ \A c \in Category : \E b \in Nat : \A case \in golden[c] : case.number <= b
    /\ NumbersUnique

LEMMA NumbersInit == Init => NumbersInv
<1> SUFFICES ASSUME Init PROVE NumbersInv
  OBVIOUS
<1> DEFINE F == {{[number |-> n, question |-> "seed"] : n \in ns} : ns \in SUBSET (1 .. MaxNumber)}
<1>1. golden \in [Category -> F]
  BY DEF Init
<1>2. \A cases \in F : \A case \in cases :
        case.number \in 1 .. MaxNumber /\ case = [number |-> case.number, question |-> "seed"]
  OBVIOUS
<1> HIDE DEF F
<1>3. MaxNumber \in Nat
  BY ReviewAssumption
<1>4. \A c \in Category : \A case \in golden[c] : case.number \in Nat /\ case.number <= MaxNumber
  BY <1>1, <1>2, <1>3
<1>5. NumbersUnique
  BY <1>1, <1>2 DEF NumbersUnique
<1> QED
  BY <1>1, <1>3, <1>4, <1>5 DEF NumbersInv

\* The next number is above those in use.
LEMMA NextNumberFresh ==
    ASSUME NumbersInv, NEW c \in Category
    PROVE  NextNumber(c) \in Nat /\ \A case \in golden[c] : case.number < NextNumber(c)
<1> DEFINE S == {0} \cup {case.number : case \in golden[c]}
<1>1. PICK b \in Nat : \A case \in golden[c] : case.number <= b
  BY DEF NumbersInv
<1>2. S \subseteq Nat /\ S # {} /\ \A n \in S : n <= b
  BY <1>1 DEF NumbersInv
<1>3. \A case \in golden[c] : case.number \in S
  OBVIOUS
<1> HIDE DEF S
<1>4. Max(S) \in Nat /\ \A n \in S : Max(S) >= n
  BY <1>2, MaxOfBounded
<1>5. NextNumber(c) = Max(S) + 1
  BY DEF NextNumber, S
<1>6. ASSUME NEW case \in golden[c] PROVE case.number < NextNumber(c)
  <2>1. case.number \in Nat /\ Max(S) \in Nat /\ Max(S) >= case.number
    BY <1>3, <1>4 DEF NumbersInv
  <2> QED
    BY <1>5, <2>1
<1> QED
  BY <1>4, <1>5, <1>6

LEMMA NextNumberPositive ==
    ASSUME NumbersInv, NEW c \in Category
    PROVE  NextNumber(c) \in Nat /\ NextNumber(c) # 0
<1> DEFINE S == {0} \cup {case.number : case \in golden[c]}
<1>1. PICK b \in Nat : \A case \in golden[c] : case.number <= b
  BY DEF NumbersInv
<1>2. S \subseteq Nat /\ S # {} /\ \A n \in S : n <= b
  BY <1>1 DEF NumbersInv
<1> HIDE DEF S
<1>3. Max(S) \in Nat
  BY <1>2, MaxOfBounded
<1>4. NextNumber(c) = Max(S) + 1
  BY DEF NextNumber, S
<1> QED
  BY <1>3, <1>4

LEMMA OnlyWriteAdds ==
    ASSUME [Next]_vars
    PROVE  UNCHANGED golden \/ WriteGolden
<1>1. ASSUME NEW key, Key(key) PROVE UNCHANGED golden
  BY <1>1 DEF Key, BeginAccept, Decide, files
<1>2. CASE \E q \in Question : Capture(q)
  BY <1>2 DEF Capture
<1>3. CASE Start \/ Present \/ Finish
  BY <1>3 DEF Start, Present, Finish, files
<1>4. ASSUME NEW key, Answer(key) PROVE UNCHANGED golden
  BY <1>1, <1>4 DEF Answer, Decide, files
<1>5. ASSUME NEW key, AnswerAgain(key) PROVE UNCHANGED golden
  BY <1>1, <1>5 DEF AnswerAgain, files
<1>6. CASE ConfirmBulk \/ DeclineBulk
  BY <1>6 DEF ConfirmBulk, DeclineBulk, Decide, files
<1>7. CASE BeginSave \/ EndSave \/ Crash \/ UNCHANGED vars
  BY <1>7 DEF BeginSave, EndSave, Crash, vars, files
<1> QED
  BY <1>2, <1>3, <1>4, <1>5, <1>6, <1>7 DEF Next

LEMMA NumbersNext == NumbersInv /\ [Next]_vars => NumbersInv'
<1> SUFFICES ASSUME NumbersInv, [Next]_vars PROVE NumbersInv'
  OBVIOUS
<1>1. CASE UNCHANGED golden
  BY <1>1 DEF NumbersInv, NumbersUnique
<1>2. CASE WriteGolden
  <2> DEFINE d == CategoryOf[This.question]
             new == [number |-> NextNumber(d), question |-> This.question]
  <2>1. golden' = [golden EXCEPT ![d] = @ \cup {new}]
    BY <1>2 DEF WriteGolden
  <2>2. new.number = NextNumber(d)
    OBVIOUS
  <2> HIDE DEF d, new
  <2>3. DOMAIN golden' = Category
    BY <2>1 DEF NumbersInv
  <2>4. \A c \in Category : c # d => golden'[c] = golden[c]
    BY <2>1 DEF NumbersInv
  <2>5. d \in Category => golden'[d] = golden[d] \cup {new}
    BY <2>1 DEF NumbersInv
  <2>6. ASSUME NEW c \in Category
        PROVE  /\ \A case \in golden'[c] : case.number \in Nat
               /\ \E b \in Nat : \A case \in golden'[c] : case.number <= b
               /\ \A x, y \in golden'[c] : x.number = y.number => x = y
    <3>1. CASE c # d
      BY <2>4, <3>1 DEF NumbersInv, NumbersUnique
    <3>2. CASE c = d
      <4>1. new.number \in Nat /\ \A case \in golden[c] : case.number < new.number
        BY <2>2, <3>2, NextNumberFresh
      <4>2. golden'[c] = golden[c] \cup {new}
        BY <2>5, <3>2
      <4>3. \A case \in golden'[c] : case.number \in Nat /\ case.number <= new.number
        BY <4>1, <4>2 DEF NumbersInv
      <4>4. \A x, y \in golden'[c] : x.number = y.number => x = y
        BY <4>1, <4>2 DEF NumbersInv, NumbersUnique
      <4> QED
        BY <4>1, <4>3, <4>4
    <3> QED
      BY <3>1, <3>2
  <2> QED
    BY <2>3, <2>6 DEF NumbersInv, NumbersUnique
<1> QED
  BY <1>1, <1>2, OnlyWriteAdds

\* Case numbers stay unique, whatever numbers are missing in a golden file, and
\* wherever sessions crash: the next one is above the highest.
THEOREM NumbersTheorem == Spec => []NumbersUnique
<1>1. NumbersInv => NumbersUnique
  BY DEF NumbersInv
<1> QED
  BY <1>1, NumbersInit, NumbersNext, PTL DEF Spec

-----------------------------------------------------------------------------
\* Types, and the candidate on the screen

Presented == pc \in {"ask", "confirm", "again", "write"}

\* The candidate presented is one of those to review.
TypeInv ==
    /\ TypeOK
    /\ DOMAIN golden = Category
    /\ Presented => pos \in todo

\* What a decision makes of the candidates.
Restatus(s, positions, status) ==
    [k \in DOMAIN s |-> IF k \in positions THEN [s[k] EXCEPT !.status = status] ELSE s[k]]

\* A sequence of candidates whose statuses change is one of as many candidates.
LEMMA RestatusTypes ==
    ASSUME NEW s \in Seq(Candidate), NEW positions, NEW status \in Status,
           NEW t, t = Restatus(s, positions, status)
    PROVE  /\ t \in Seq(Candidate) /\ Len(t) = Len(s) /\ DOMAIN t = DOMAIN s
           /\ \A k \in DOMAIN s : /\ t[k].question = s[k].question
                                  /\ t[k].status = IF k \in positions THEN status ELSE s[k].status
                                  /\ k \notin positions => t[k] = s[k]
<1>1. DOMAIN s = 1 .. Len(s) /\ Len(s) \in Nat /\ \A k \in DOMAIN s : s[k] \in Candidate
  OBVIOUS
<1>2. \A k \in DOMAIN s : [s[k] EXCEPT !.status = status] =
                              [question |-> s[k].question, status |-> status]
  BY <1>1 DEF Candidate
<1>3. t = [k \in DOMAIN s |-> IF k \in positions THEN [question |-> s[k].question, status |-> status]
                               ELSE s[k]]
  BY <1>2 DEF Restatus
<1>4. t \in [1 .. Len(s) -> Candidate]
  BY <1>1, <1>3 DEF Candidate
<1>5. t \in Seq(Candidate) /\ Len(t) = Len(s)
  BY <1>1, <1>4
<1> QED
  BY <1>1, <1>3, <1>5

LEMMA TypeInit == Init => TypeInv
<1> SUFFICES ASSUME Init PROVE TypeInv
  OBVIOUS
<1>1. queue \in Seq(Candidate)
  <2>1. Cardinality(Queued) \in Nat
    BY ReviewAssumption, FS_CardinalityType
  <2>2. queue \in [1 .. Cardinality(Queued) -> [question : Queued, status : {"pending"}]]
    BY DEF Init
  <2>3. [question : Queued, status : {"pending"}] \subseteq Candidate
    BY ReviewAssumption DEF Candidate, Status
  <2>4. queue \in [1 .. Cardinality(Queued) -> Candidate]
    BY <2>2, <2>3
  <2> QED
    BY <2>1, <2>4
<1>2. mem \in Seq(Candidate) /\ Len(mem) = 0
  BY DEF Init
<1> DEFINE F == {{[number |-> n, question |-> "seed"] : n \in ns} : ns \in SUBSET (1 .. MaxNumber)}
<1>3. golden \in [Category -> F]
  BY DEF Init
<1>4. \A cases \in F : \A case \in cases : case.number \in 1 .. MaxNumber /\ case.question = "seed"
  OBVIOUS
<1> HIDE DEF F
<1>5. \A c \in Category : \A case \in golden[c] :
          case.number \in Nat \ {0} /\ case.question \in Question \cup {"seed"}
  BY <1>3, <1>4, ReviewAssumption
<1>6. counts \in [accepted : Nat, skipped : Nat, flagged : Nat, remaining : Nat]
  BY DEF Init, NoCounts
<1>7. torn = {} /\ pc = "closed" /\ todo = {} /\ pos = 0 /\ only = "pending" /\ crashes = 0
  BY DEF Init
<1>8. MaxCrashes \in Nat /\ ~Presented
  BY <1>7, ReviewAssumption DEF Presented
<1>9. only \in Status
  BY <1>7 DEF Status
<1> QED
  BY <1>1, <1>2, <1>3, <1>5, <1>6, <1>7, <1>8, <1>9 DEF TypeInv, TypeOK

\* A number set with a least element has Min as that; a set of numbers has one.
LEMMA MinOfNumbers ==
    ASSUME NEW S, S \subseteq Nat, S # {}
    PROVE  Min(S) \in S /\ \A n \in S : Min(S) <= n
<1> DEFINE Less == {ss \in Nat \X Nat : ss[1] < ss[2]}
<1>1. IsWellFoundedOn(Less, Nat)
  BY NatLessThanWellFounded DEF OpToRel
<1>2. PICK m \in S : \A n \in S : <<n, m>> \notin Less
  <2> HIDE DEF Less
  <2> QED
    BY <1>1, WFMin
<1>3. ASSUME NEW n \in S PROVE m <= n
  <2>1. m \in Nat /\ n \in Nat /\ <<n, m>> \notin Less
    BY <1>2
  <2>2. ~(n < m)
    BY <2>1
  <2> QED
    BY <2>1, <2>2
<1> QED
  BY <1>3 DEF Min

\* The keys decide about the candidate presented, or open its golden file.
LEMMA KeyTypes ==
    ASSUME TypeInv, Presented, NEW key, Key(key)
    PROVE  /\ mem' \in Seq(Candidate) /\ DOMAIN mem' = DOMAIN mem /\ Len(mem') = Len(mem)
           /\ torn' \subseteq Category
           /\ pc' \in {"write", "failed", "save"}
           /\ counts' \in [accepted : Nat, skipped : Nat, flagged : Nat, remaining : Nat]
           /\ UNCHANGED <<queue, golden, todo, pos, only>>
<1>1. CASE BeginAccept
  <2>1. This \in Candidate /\ CategoryOf[This.question] \in Category
    <3>1. pos \in DOMAIN mem /\ mem \in Seq(Candidate)
      BY DEF TypeInv, TypeOK
    <3>2. This \in Candidate
      BY <3>1 DEF This
    <3> QED
      BY <3>2, ReviewAssumption DEF Candidate
  <2> QED
    BY <1>1, <2>1 DEF BeginAccept, session, TypeInv, TypeOK
<1>2. ASSUME NEW status \in {"skipped", "flagged"}, Decide({pos}, status, status)
      PROVE  /\ mem' \in Seq(Candidate) /\ DOMAIN mem' = DOMAIN mem /\ Len(mem') = Len(mem)
             /\ torn' = torn /\ pc' = "save"
             /\ counts' \in [accepted : Nat, skipped : Nat, flagged : Nat, remaining : Nat]
             /\ UNCHANGED <<queue, golden, todo, pos, only>>
  <2>1. status \in Status
    BY DEF Status
  <2>2. mem' \in Seq(Candidate) /\ DOMAIN mem' = DOMAIN mem /\ Len(mem') = Len(mem)
    <3>1. mem \in Seq(Candidate)
      BY DEF TypeInv, TypeOK
    <3>2. mem' = Restatus(mem, {pos}, status)
      BY <1>2 DEF Decide, Restatus
    <3> QED
      BY <2>1, <3>1, <3>2, RestatusTypes
  <2>3. Cardinality({pos}) = 1
    BY FS_Singleton
  <2>4. counts' = [counts EXCEPT ![status] = @ + 1]
    BY <1>2, <2>3 DEF Decide
  <2>5. counts' \in [accepted : Nat, skipped : Nat, flagged : Nat, remaining : Nat]
    BY <2>4 DEF TypeInv, TypeOK
  <2> QED
    BY <1>2, <2>2, <2>5 DEF Decide, files
<1> QED
  BY <1>1, <1>2 DEF Key, TypeInv, TypeOK

\* A step that changes neither the files nor the candidates.
LEMMA TypeMoves ==
    ASSUME TypeInv, UNCHANGED <<queue, golden, mem, todo, only>>,
           torn' \subseteq Category,
           counts' \in [accepted : Nat, skipped : Nat, flagged : Nat, remaining : Nat],
           crashes' \in 0 .. MaxCrashes,
           pos' \in 0 .. Len(mem),
           pc' \in {"closed", "next", "ask", "confirm", "again", "write", "save", "saving", "failed"},
           Presented' => pos' \in todo
    PROVE  TypeInv'
  BY DEF TypeInv, TypeOK

\* A decision.
LEMMA DecideTypes ==
    ASSUME TypeInv, NEW positions \in SUBSET todo,
           NEW status \in {"skipped", "flagged"}, Decide(positions, status, status),
           UNCHANGED crashes
    PROVE  TypeInv'
<1>1. mem \in Seq(Candidate) /\ status \in Status
  BY DEF TypeInv, TypeOK, Status
<1>2. mem' = Restatus(mem, positions, status)
  BY DEF Decide, Restatus
<1>3. mem' \in Seq(Candidate) /\ Len(mem') = Len(mem) /\ DOMAIN mem' = DOMAIN mem
  BY <1>1, <1>2, RestatusTypes
<1>4. Cardinality(positions) \in Nat
  <2>1. DOMAIN mem = 1 .. Len(mem) /\ Len(mem) \in Nat
    BY <1>1
  <2>2. IsFiniteSet(DOMAIN mem)
    BY <2>1, FS_Interval
  <2>3. positions \in SUBSET DOMAIN mem
    BY DEF TypeInv, TypeOK
  <2>4. IsFiniteSet(positions)
    BY <2>2, <2>3, FS_Subset
  <2> QED
    BY <2>4, FS_CardinalityType
<1>5. counts' \in [accepted : Nat, skipped : Nat, flagged : Nat, remaining : Nat]
  <2>1. counts' = [counts EXCEPT ![status] = @ + Cardinality(positions)]
    BY DEF Decide
  <2>2. counts \in [accepted : Nat, skipped : Nat, flagged : Nat, remaining : Nat]
    BY DEF TypeInv, TypeOK
  <2> QED
    BY <1>4, <2>1, <2>2
<1>6. UNCHANGED <<queue, golden, torn, todo, pos, only>> /\ pc' = "save"
  BY DEF Decide, files
<1>7. ~Presented'
  BY <1>6 DEF Presented
<1> QED
  BY <1>3, <1>5, <1>6, <1>7 DEF TypeInv, TypeOK

LEMMA OpenPositions ==
    ASSUME TypeInv, Open # {}
    PROVE  Min(Open) \in Open /\ Min(Open) \in todo /\ Min(Open) \in 1 .. Len(mem)
<1>1. Open \subseteq todo /\ todo \subseteq 1 .. Len(mem) /\ Open \subseteq Nat
  BY DEF TypeInv, TypeOK, Open
<1>2. Min(Open) \in Open
  BY <1>1, MinOfNumbers
<1> QED
  BY <1>1, <1>2

LEMMA CloseTypes ==
    ASSUME TypeInv, Close
    PROVE  counts' \in [accepted : Nat, skipped : Nat, flagged : Nat, remaining : Nat]
<1>1. mem \in Seq(Candidate)
  BY DEF TypeInv, TypeOK
<1>2. DOMAIN mem = 1 .. Len(mem) /\ Len(mem) \in Nat
  BY <1>1
<1>3. IsFiniteSet(DOMAIN mem)
  BY <1>2, FS_Interval
<1>4. {k \in DOMAIN mem : mem[k].status = only} \in SUBSET DOMAIN mem
  OBVIOUS
<1>5. Remaining(mem) \in Nat
  BY <1>3, <1>4, FS_Subset, FS_CardinalityType DEF Remaining
<1>6. counts' = [counts EXCEPT !.remaining = Remaining(mem)]
  BY DEF Close
<1> QED
  BY <1>5, <1>6 DEF TypeInv, TypeOK

LEMMA TypeNext == TypeInv /\ NumbersInv /\ [Next]_vars => TypeInv'
<1> SUFFICES ASSUME TypeInv, NumbersInv, [Next]_vars PROVE TypeInv'
  OBVIOUS
<1> DEFINE Records == [accepted : Nat, skipped : Nat, flagged : Nat, remaining : Nat]
<1>0. /\ counts \in Records /\ torn \subseteq Category /\ crashes \in 0 .. MaxCrashes
      /\ pos \in 0 .. Len(mem) /\ mem \in Seq(Candidate) /\ queue \in Seq(Candidate)
  BY DEF TypeInv, TypeOK
<1>1. ASSUME NEW q \in Question, Capture(q) PROVE TypeInv'
  <2>1. [question |-> q, status |-> "pending"] \in Candidate
    BY DEF Candidate, Status
  <2>2. queue' \in Seq(Candidate)
    BY <1>0, <1>1, <2>1 DEF Capture
  <2>3. UNCHANGED <<golden, torn, pc, mem, todo, pos, only, counts, crashes>>
    BY <1>1 DEF Capture, session
  <2>4. Presented' = Presented
    BY <2>3 DEF Presented
  <2> QED
    BY <2>2, <2>3, <2>4 DEF TypeInv, TypeOK
<1>2. CASE Start
  <2>1. /\ mem' = queue /\ todo' \subseteq DOMAIN mem' /\ pos' = 0 /\ pc' = "next"
        /\ only' \in StatusChoice /\ UNCHANGED <<queue, golden, torn, crashes>>
    BY <1>2 DEF Start, files
  <2>2. only' \in Status
    BY <2>1, ReviewAssumption DEF Status
  <2>3. Len(mem') \in Nat /\ DOMAIN mem' = 1 .. Len(mem')
    BY <1>0, <2>1
  <2>4. IsFiniteSet(DOMAIN mem')
    BY <2>3, FS_Interval
  <2>5. Cardinality(todo') \in Nat
    BY <2>1, <2>4, FS_Subset, FS_CardinalityType
  <2>6. counts' \in Records
    BY <1>2, <2>5 DEF Start, NoCounts
  <2>7. ~Presented'
    BY <2>1 DEF Presented
  <2> QED
    BY <1>0, <2>1, <2>2, <2>3, <2>6, <2>7 DEF TypeInv, TypeOK
<1>3. CASE Present
  <2>1. Min(Open) \in todo /\ Min(Open) \in 1 .. Len(mem)
    BY <1>3, OpenPositions DEF Present
  <2> HIDE DEF Records
  <2> QED
    BY <1>0, <1>3, <2>1, TypeMoves DEF Present, files, history, Records
<1>4. ASSUME Close, UNCHANGED <<files, session, crashes>> PROVE TypeInv'
  <2>1. counts' \in Records /\ pc' = "closed" /\ ~Presented'
    BY <1>4, CloseTypes DEF Close, Presented
  <2> QED
    BY <1>0, <1>4, <2>1, TypeMoves DEF files, session
<1>5. ASSUME NEW key, Presented, Key(key), UNCHANGED crashes PROVE TypeInv'
  <2>1. /\ mem' \in Seq(Candidate) /\ DOMAIN mem' = DOMAIN mem /\ Len(mem') = Len(mem)
        /\ torn' \subseteq Category
        /\ pc' \in {"write", "failed", "save"}
        /\ counts' \in Records
        /\ UNCHANGED <<queue, golden, todo, pos, only>>
    BY <1>5, KeyTypes
  <2>2. pos' \in todo'
    BY <1>5, <2>1 DEF TypeInv
  <2> QED
    BY <1>0, <1>5, <2>1, <2>2 DEF TypeInv, TypeOK
<1>6. ASSUME NEW key \in {"y", "n", "f", "N", "q", "other"}, Answer(key) PROVE TypeInv'
  <2>1. Presented /\ UNCHANGED crashes /\ pos \in todo
    BY <1>6 DEF Answer, Presented, TypeInv
  <2>2. CASE Key(Action(key))
    BY <2>1, <2>2, <1>5
  <2>3. CASE Decide({pos}, "skipped", "skipped")
    BY <2>1, <2>3, DecideTypes
  <2>4. CASE Close /\ UNCHANGED <<files, session>>
    BY <2>1, <2>4, <1>4
  <2>5. CASE pc' = "confirm" /\ UNCHANGED <<files, session, counts>>
    BY <1>0, <2>1, <2>5, TypeMoves DEF files, session
  <2> QED
    BY <1>6, <2>2, <2>3, <2>4, <2>5 DEF Answer
<1>7. ASSUME NEW key \in {"y", "n", "f", "N", "q", "other"}, AnswerAgain(key) PROVE TypeInv'
  <2>1. Presented /\ UNCHANGED crashes /\ pos \in todo
    BY <1>7 DEF AnswerAgain, Presented, TypeInv
  <2>2. CASE Key(key)
    BY <2>1, <2>2, <1>5
  <2>3. CASE /\ pos' = IF key = "q" THEN Len(mem) ELSE pos
             /\ pc' = "save" /\ UNCHANGED <<files, mem, todo, only, counts, approved>>
    <3>1. pos' \in 0 .. Len(mem) /\ ~Presented'
      BY <1>0, <2>3 DEF Presented
    <3> QED
      BY <1>0, <2>1, <2>3, <3>1, TypeMoves DEF files
  <2> QED
    BY <1>7, <2>2, <2>3 DEF AnswerAgain
<1>8. CASE ConfirmBulk
  <2>1. Bulk \in SUBSET todo
    BY DEF Bulk
  <2>2. Decide(Bulk, "skipped", "skipped") /\ UNCHANGED crashes
    BY <1>8 DEF ConfirmBulk
  <2> QED
    BY <2>1, <2>2, DecideTypes
<1>9. CASE DeclineBulk
  <2>1. Presented /\ pos \in todo
    BY <1>9 DEF DeclineBulk, Presented, TypeInv
  <2> QED
    BY <1>0, <1>9, <2>1, TypeMoves DEF DeclineBulk, files, session
<1>10. CASE WriteGolden
  <2> DEFINE d == CategoryOf[This.question]
             new == [number |-> NextNumber(d), question |-> This.question]
  <2>1. Presented /\ pos \in DOMAIN mem
    BY <1>10 DEF WriteGolden, Presented, TypeInv, TypeOK
  <2>2. This \in Candidate
    BY <1>0, <2>1 DEF This
  <2>3. d \in Category /\ This.question \in Question
    BY <2>2, ReviewAssumption DEF Candidate
  <2>4. NextNumber(d) \in Nat \ {0}
    <3>1. NextNumber(d) \in Nat /\ NextNumber(d) # 0
      BY <2>3, NextNumberPositive
    <3> QED
      BY <3>1
  <2>5. new.number \in Nat \ {0} /\ new.question \in Question
    BY <2>3, <2>4
  <2>6. golden' = [golden EXCEPT ![d] = @ \cup {new}]
    BY <1>10 DEF WriteGolden
  <2>7. This.question \in Question /\ "accepted" \in Status
    BY <2>3 DEF Status
  <2>8. mem' = Restatus(mem, {pos}, "accepted")
    BY <1>0, <1>10, <2>1 DEF WriteGolden, Restatus
  <2>9. mem' \in Seq(Candidate) /\ Len(mem') = Len(mem) /\ DOMAIN mem' = DOMAIN mem
    BY <1>0, <2>7, <2>8, RestatusTypes
  <2>10. /\ UNCHANGED <<queue, todo, pos, only, crashes>> /\ torn' \subseteq torn /\ pc' = "save"
         /\ counts' \in Records
    BY <1>0, <1>10 DEF WriteGolden, history
  <2>11. ~Presented'
    BY <2>10 DEF Presented
  <2> HIDE DEF d, new
  <2>12. DOMAIN golden' = Category /\ \A c \in Category : golden'[c] \subseteq golden[c] \cup {new}
    BY <2>6 DEF TypeInv
  <2> QED
    BY <1>0, <2>5, <2>9, <2>10, <2>11, <2>12 DEF TypeInv, TypeOK
<1>11. CASE BeginSave \/ EndSave
  <2>1. /\ queue' \in Seq(Candidate) /\ pc' \in {"saving", "next"}
        /\ UNCHANGED <<golden, torn, mem, todo, pos, only, counts, crashes>>
    <3>1. << >> \in Seq(Candidate)
      OBVIOUS
    <3>2. CASE BeginSave
      BY <3>1, <3>2 DEF BeginSave, session, history
    <3>3. CASE EndSave
      BY <1>0, <3>3 DEF EndSave, session
    <3> QED
      BY <1>11, <3>2, <3>3
  <2>2. ~Presented'
    BY <2>1 DEF Presented
  <2> QED
    BY <2>1, <2>2 DEF TypeInv, TypeOK
<1>12. CASE Crash
  <2>1. \A n \in 0 .. Len(mem) : SubSeq(mem, 1, n) \in Seq(Candidate)
    BY <1>0
  <2>2. queue' \in Seq(Candidate)
    BY <1>0, <1>12, <2>1 DEF Crash
  <2>3. /\ pc' = "closed" /\ UNCHANGED <<golden, torn, mem, todo, pos, only, counts>>
        /\ crashes < MaxCrashes /\ crashes' = crashes + 1
    BY <1>12 DEF Crash, session
  <2>4. ~Presented' /\ crashes' \in 0 .. MaxCrashes
    BY <1>0, <2>3, ReviewAssumption DEF Presented
  <2> QED
    BY <2>2, <2>3, <2>4 DEF TypeInv, TypeOK
<1>13. CASE UNCHANGED vars
  <2>1. Presented' = Presented
    BY <1>13 DEF vars, Presented
  <2> QED
    BY <1>13, <2>1 DEF vars, files, session, history, TypeInv, TypeOK
<1> QED
  <2>1. CASE Finish
    BY <2>1, <1>4 DEF Finish, history
  <2> HIDE DEF Records
  <2> QED
    BY <1>1, <1>2, <1>3, <1>6, <1>7, <1>8, <1>9, <1>10, <1>11, <1>12, <1>13, <2>1 DEF Next

\* Types are kept, wherever sessions crash and whatever the service captures.
THEOREM ReviewTypes == Spec => []TypeOK
<1>1. TypeInv => TypeOK
  BY DEF TypeInv
<1> QED
  BY <1>1, TypeInit, TypeNext, NumbersInit, NumbersNext, PTL DEF Spec

-----------------------------------------------------------------------------
\* Sessions none of which has crashed

\* The positions that may still be decided on.
ToCome == {k \in todo : k > pos \/ (k = pos /\ Presented)}

\* A bulk skip decides on the open candidates of its category, all of them and
\* no others: of those to come, one of a category is open exactly if each is.
Together ==
    \A j, k \in ToCome :
        CategoryOf[mem[j].question] = CategoryOf[mem[k].question] =>
            (mem[j].status = only <=> mem[k].status = only)

\* While no session has crashed, a golden file is truncated only for the
\* candidate presented, which is undecided.
SessionInv ==
    crashes = 0 =>
        /\ pc # "failed"
        /\ torn = IF pc = "write" THEN {CategoryOf[This.question]} ELSE {}
        /\ Presented => This.status = only
        /\ Together

\* A step that decides nothing, and may only move on.
LEMMA TogetherMoves ==
    ASSUME SessionInv, crashes = 0, UNCHANGED <<mem, todo, only>>,
           pc' # "failed", torn' = IF pc' = "write" THEN {CategoryOf[This'.question]} ELSE {},
           Presented' => This'.status = only,
           ToCome' \subseteq ToCome
    PROVE  SessionInv'
<1>1. Together'
  BY DEF SessionInv, Together
<1> QED
  BY <1>1 DEF SessionInv

\* A decision on the candidate presented, or on all of its category to come.
LEMMA TogetherDecides ==
    ASSUME TypeInv, SessionInv, crashes = 0, Presented,
           NEW positions, positions \in {{pos}, Bulk},
           NEW status \in Status, mem' = Restatus(mem, positions, status),
           UNCHANGED <<todo, pos, only>>, pc' = "save", torn' = {}
    PROVE  SessionInv'
<1>1. mem \in Seq(Candidate) /\ todo \subseteq DOMAIN mem /\ pos \in todo /\ todo \subseteq Nat
  BY DEF TypeInv, TypeOK
<1>2. /\ \A k \in todo : /\ mem'[k].question = mem[k].question
                         /\ mem'[k].status = IF k \in positions THEN status ELSE mem[k].status
  BY <1>1, RestatusTypes
<1>3. ToCome' \subseteq ToCome \ {pos} /\ ~Presented'
  BY <1>1 DEF ToCome, Presented
<1>4. ASSUME NEW j \in ToCome', NEW k \in ToCome',
             CategoryOf[mem[j].question] = CategoryOf[mem[k].question]
      PROVE  j \in positions <=> k \in positions
  <2>1. CASE positions = {pos}
    BY <1>3, <2>1
  <2>2. CASE positions = Bulk
    <3>1. j \in todo /\ k \in todo /\ j >= pos /\ k >= pos
      BY <1>1, <1>3 DEF ToCome
    <3> QED
      BY <1>4, <2>2, <3>1 DEF Bulk
  <2> QED
    BY <2>1, <2>2
<1>5. \A j, k \in ToCome : CategoryOf[mem[j].question] = CategoryOf[mem[k].question] =>
            (mem[j].status = only <=> mem[k].status = only)
  BY DEF SessionInv, Together
<1>6. Together'
  <2> SUFFICES ASSUME NEW j \in ToCome', NEW k \in ToCome',
                      CategoryOf[mem'[j].question] = CategoryOf[mem'[k].question]
               PROVE  mem'[j].status = only <=> mem'[k].status = only
    BY DEF Together
  <2>1. j \in todo /\ k \in todo /\ j \in ToCome /\ k \in ToCome
    BY <1>3 DEF ToCome
  <2>2. CategoryOf[mem[j].question] = CategoryOf[mem[k].question]
    BY <1>2, <2>1
  <2>3. j \in positions <=> k \in positions
    BY <1>4, <2>2
  <2> QED
    BY <1>2, <1>5, <2>1, <2>2, <2>3
<1> QED
  BY <1>3, <1>6 DEF SessionInv

LEMMA SessionInit == Init => SessionInv
<1> SUFFICES ASSUME Init PROVE SessionInv
  OBVIOUS
<1>1. torn = {} /\ pc = "closed" /\ todo = {}
  BY DEF Init
<1> QED
  BY <1>1 DEF SessionInv, Together, ToCome, Presented

\* A key at one of the prompts, with no golden file truncated.
LEMMA KeySession ==
    ASSUME TypeInv, SessionInv, crashes = 0, pc \in {"ask", "again"}, NEW key, Key(key)
    PROVE  SessionInv'
<1>1. Presented /\ torn = {}
  BY DEF Presented, SessionInv
<1>2. CASE BeginAccept
  <2>1. /\ UNCHANGED <<mem, todo, pos, only>> /\ pc' = "write"
        /\ torn' = {CategoryOf[This.question]}
    BY <1>1, <1>2 DEF BeginAccept, session
  <2>2. This' = This /\ ToCome' = ToCome
    BY <1>1, <2>1 DEF This, ToCome, Presented
  <2> QED
    BY <1>1, <2>1, <2>2, TogetherMoves DEF SessionInv
<1>3. ASSUME NEW status \in {"skipped", "flagged"}, Decide({pos}, status, status)
      PROVE  SessionInv'
  <2>1. /\ mem' = Restatus(mem, {pos}, status) /\ UNCHANGED <<todo, pos, only>>
        /\ pc' = "save" /\ torn' = {} /\ status \in Status
    BY <1>1, <1>3 DEF Decide, Restatus, files, Status
  <2> QED
    BY <1>1, <2>1, TogetherDecides
<1> QED
  BY <1>2, <1>3 DEF Key

LEMMA SessionNext == TypeInv /\ SessionInv /\ [Next]_vars => SessionInv'
<1> SUFFICES ASSUME TypeInv, SessionInv, [Next]_vars, crashes' = 0 PROVE SessionInv'
  BY DEF SessionInv
<1>1. CASE Crash
  <2>1. crashes' = crashes + 1 /\ crashes \in Nat
    BY <1>1 DEF Crash, TypeInv, TypeOK
  <2> QED
    BY <2>1
<1>2. CASE ~Crash
  <2>0. /\ todo \subseteq Nat /\ pos \in Nat /\ todo \subseteq DOMAIN mem /\ mem \in Seq(Candidate)
    BY DEF TypeInv, TypeOK
  <2>1. ASSUME NEW q \in Question, Capture(q) PROVE SessionInv'
    <3>1. UNCHANGED <<torn, pc, mem, todo, pos, only, crashes>>
      BY <2>1 DEF Capture, session
    <3> QED
      BY <3>1 DEF SessionInv, Together, ToCome, Presented, This
  <2>2. CASE Start
    <3>1. /\ mem' = queue /\ pc' = "next" /\ crashes' = crashes /\ torn' = torn
          /\ todo' = {k \in DOMAIN queue : queue[k].status = only'}
      BY <2>2 DEF Start, files
    <3>2. torn' = {} /\ ~Presented'
      BY <2>2, <3>1 DEF SessionInv, Start, Presented
    <3>3. \A k \in todo' : mem'[k].status = only'
      BY <3>1
    <3>4. Together'
      BY <3>3 DEF Together, ToCome
    <3> QED
      BY <3>1, <3>2, <3>4 DEF SessionInv
  <2>3. CASE Present
    <3>1. Min(Open) \in Open /\ Min(Open) \in todo
      BY <2>3, OpenPositions DEF Present
    <3>2. UNCHANGED <<torn, mem, todo, only, crashes>> /\ pos' = Min(Open) /\ pc' = "ask" /\ torn = {}
      BY <2>3, <1>2 DEF Present, files, history, SessionInv
    <3>3. This'.status = only /\ pos' > pos /\ pos' \in Nat
      BY <2>0, <3>1, <3>2 DEF Open, This
    <3>4. ToCome' \subseteq ToCome
      <4>1. \A k \in todo' : k \in todo /\ (k >= pos' => k > pos)
        BY <2>0, <3>2, <3>3
      <4>2. \A k \in todo' : k > pos' \/ k = pos' => k >= pos'
        BY <2>0, <3>2, <3>3
      <4> QED
        BY <4>1, <4>2 DEF ToCome
    <3> QED
      BY <3>2, <3>3, <3>4, TogetherMoves
  <2>4. ASSUME Close, UNCHANGED <<files, session, crashes>>, torn = {} PROVE SessionInv'
    <3>1. pc' = "closed" /\ ~Presented' /\ UNCHANGED <<torn, mem, todo, pos, only>>
      BY <2>4 DEF Close, Presented, files, session
    <3>2. ToCome' \subseteq ToCome
      BY <3>1 DEF ToCome
    <3> QED
      BY <2>4, <3>1, <3>2, TogetherMoves
  <2>5. CASE Finish
    <3>1. crashes' = crashes /\ torn = {}
      BY <2>5 DEF Finish, history, SessionInv
    <3> QED
      BY <2>4, <2>5, <3>1 DEF Finish
  <2>6. ASSUME NEW key \in {"y", "n", "f", "N", "q", "other"}, Answer(key) PROVE SessionInv'
    <3>1. crashes = 0 /\ pc = "ask" /\ Presented /\ torn = {}
      BY <2>6 DEF Answer, Presented, SessionInv
    <3>2. CASE Key(Action(key))
      BY <3>1, <3>2, KeySession
    <3>3. CASE Decide({pos}, "skipped", "skipped")
      <4>1. /\ mem' = Restatus(mem, {pos}, "skipped") /\ UNCHANGED <<todo, pos, only>>
            /\ pc' = "save" /\ torn' = {} /\ "skipped" \in Status
        BY <3>1, <3>3 DEF Decide, Restatus, files, Status
      <4> QED
        BY <3>1, <4>1, TogetherDecides
    <3>4. CASE Close /\ UNCHANGED <<files, session>>
      BY <2>4, <3>1, <3>4
    <3>5. CASE pc' = "confirm" /\ UNCHANGED <<files, session, counts>>
      <4>1. UNCHANGED <<torn, mem, todo, pos, only>> /\ This' = This /\ ToCome' \subseteq ToCome
        BY <3>1, <3>5 DEF files, session, This, ToCome, Presented
      <4> QED
        BY <3>1, <3>5, <4>1, TogetherMoves DEF SessionInv
    <3> QED
      BY <2>6, <3>2, <3>3, <3>4, <3>5 DEF Answer
  <2>7. ASSUME NEW key \in {"y", "n", "f", "N", "q", "other"}, AnswerAgain(key) PROVE SessionInv'
    <3>1. crashes = 0 /\ pc = "again" /\ Presented /\ torn = {}
      BY <2>7 DEF AnswerAgain, Presented, SessionInv
    <3>2. CASE Key(key)
      BY <3>1, <3>2, KeySession
    <3>3. CASE /\ pos' = IF key = "q" THEN Len(mem) ELSE pos
               /\ pc' = "save" /\ UNCHANGED <<files, mem, todo, only, counts, approved>>
      <4>1. torn' = torn /\ ~Presented' /\ pos' >= pos
        <5>1. Len(mem) >= pos /\ Len(mem) \in Nat
          BY DEF TypeInv, TypeOK
        <5> QED
          BY <2>0, <3>3, <5>1 DEF files, Presented
      <4>2. ToCome' \subseteq ToCome
        <5>1. pos' \in Nat
          BY <2>0, <3>3
        <5> QED
          <6>1. \A k \in todo' : k \in todo /\ (k > pos' => k > pos)
            BY <2>0, <3>3, <4>1, <5>1
          <6> QED
            BY <4>1, <6>1 DEF ToCome
      <4> QED
        BY <3>1, <3>3, <4>1, <4>2, TogetherMoves
    <3> QED
      BY <2>7, <3>2, <3>3 DEF AnswerAgain
  <2>8. CASE ConfirmBulk
    <3>1. crashes = 0 /\ Presented /\ torn = {}
      BY <2>8 DEF ConfirmBulk, Presented, SessionInv
    <3>2. /\ mem' = Restatus(mem, Bulk, "skipped") /\ UNCHANGED <<todo, pos, only>>
          /\ pc' = "save" /\ torn' = {} /\ "skipped" \in Status
      BY <2>8, <3>1 DEF ConfirmBulk, Decide, Restatus, files, Status
    <3> QED
      BY <3>1, <3>2, TogetherDecides
  <2>9. CASE DeclineBulk
    <3>1. /\ UNCHANGED <<torn, mem, todo, pos, only>> /\ This' = This /\ ToCome' \subseteq ToCome
          /\ crashes = 0 /\ torn = {} /\ Presented /\ pc' = "again"
      BY <2>9 DEF DeclineBulk, files, session, This, ToCome, Presented, SessionInv
    <3> QED
      BY <3>1, TogetherMoves DEF SessionInv
  <2>10. CASE WriteGolden
    <3>1. crashes = 0 /\ Presented /\ torn = {CategoryOf[This.question]} /\ pos \in DOMAIN mem
      BY <2>10 DEF WriteGolden, history, Presented, SessionInv, TypeInv, TypeOK
    <3>2. mem' = Restatus(mem, {pos}, "accepted")
      BY <2>0, <2>10, <3>1 DEF WriteGolden, Restatus
    <3>3. /\ UNCHANGED <<todo, pos, only>>
          /\ pc' = "save" /\ torn' = {} /\ "accepted" \in Status
      BY <2>10, <3>1 DEF WriteGolden, Status
    <3> QED
      BY <3>1, <3>2, <3>3, TogetherDecides
  <2>11. CASE BeginSave \/ EndSave
    <3>1. /\ UNCHANGED <<torn, mem, todo, pos, only, crashes>> /\ torn = {}
          /\ pc' \in {"saving", "next"} /\ ~Presented' /\ ~Presented
      BY <2>11 DEF BeginSave, EndSave, session, history, Presented, SessionInv
    <3>2. ToCome' \subseteq ToCome
      BY <3>1 DEF ToCome
    <3> QED
      BY <3>1, <3>2, TogetherMoves
  <2>12. CASE UNCHANGED vars
    <3>1. UNCHANGED <<torn, pc, mem, todo, pos, only, crashes>>
      BY <2>12 DEF vars, files, session, history
    <3> QED
      BY <3>1 DEF SessionInv, Together, ToCome, Presented, This
  <2> QED
    BY <1>2, <2>1, <2>2, <2>3, <2>5, <2>6, <2>7, <2>8, <2>9, <2>10, <2>11, <2>12 DEF Next
<1> QED
  BY <1>1, <1>2

\* What the steps are, as far as the rows, the cases and the counts go.
Moves ==
    /\ pc \in {"next", "ask", "confirm", "again"}
    /\ pc' \in {"ask", "confirm", "again", "write", "save"}
    /\ UNCHANGED <<queue, golden, mem, todo, only, counts, persisted>>

Closes ==
    /\ pc \in {"next", "ask"}
    /\ Close
    /\ UNCHANGED <<queue, golden, mem, todo, only, persisted>>

Decides(positions, status) ==
    /\ pc \in {"ask", "confirm", "again"}
    /\ pc' = "save"
    /\ mem' = Restatus(mem, positions, status)
    /\ counts' = [counts EXCEPT ![status] = @ + Cardinality(positions)]
    /\ UNCHANGED <<queue, golden, todo, only, persisted>>

\* Positions that are open for a decision.
Undecided(positions) == positions \subseteq todo /\ \A k \in positions : mem[k].status = only

DecidesSome == \E positions : \E status \in {"skipped", "flagged"} : Undecided(positions) /\ Decides(positions, status)

LEMMA OneUndecided ==
    ASSUME TypeInv, SessionInv, crashes = 0, Presented
    PROVE  Undecided({pos}) /\ Undecided(Bulk)
<1>1. pos \in todo /\ mem[pos].status = only /\ pos \in ToCome
  BY DEF TypeInv, SessionInv, This, ToCome
<1>2. ASSUME NEW k \in Bulk PROVE k \in todo /\ mem[k].status = only
  <2>1. k \in todo /\ k \in Nat /\ pos \in Nat /\ k >= pos
        /\ CategoryOf[mem[k].question] = CategoryOf[mem[pos].question]
    BY DEF Bulk, This, TypeInv, TypeOK
  <2>2. k \in ToCome
    BY <2>1 DEF ToCome
  <2> QED
    BY <1>1, <2>1, <2>2 DEF SessionInv, Together
<1> QED
  BY <1>1, <1>2 DEF Undecided

LEMMA KeyKinds ==
    ASSUME TypeInv, SessionInv, crashes = 0, pc \in {"ask", "again"}, NEW key, Key(key), UNCHANGED persisted
    PROVE  Moves \/ DecidesSome
<1>1. CASE BeginAccept
  <2>1. pc' = "write"
    BY <1>1 DEF BeginAccept, SessionInv
  <2> QED
    BY <1>1, <2>1 DEF BeginAccept, session, Moves
<1>2. ASSUME NEW status \in {"skipped", "flagged"}, Decide({pos}, status, status)
      PROVE  DecidesSome
  <2>1. Decides({pos}, status)
    BY <1>2 DEF Decide, Decides, Restatus, files
  <2>2. Undecided({pos})
    BY OneUndecided DEF Presented
  <2> QED
    BY <2>1, <2>2 DEF DecidesSome
<1> QED
  BY <1>1, <1>2 DEF Key

LEMMA Kinds ==
    ASSUME TypeInv, SessionInv, [Next]_vars, crashes' = 0
    PROVE  \/ \E q \in Question : Capture(q)
           \/ Start /\ pc = "closed"
           \/ Moves \/ Closes \/ DecidesSome
           \/ WriteGolden /\ Undecided({pos})
           \/ BeginSave \/ EndSave
           \/ UNCHANGED vars
<1>0. CASE Crash
  <2>1. crashes' = crashes + 1 /\ crashes \in Nat
    BY <1>0 DEF Crash, TypeInv, TypeOK
  <2> QED
    BY <2>1
<1>1. ASSUME NEW key \in {"y", "n", "f", "N", "q", "other"}, Answer(key)
      PROVE  Moves \/ Closes \/ DecidesSome
  <2>1. crashes = 0 /\ pc = "ask" /\ Presented /\ persisted' = persisted
    BY <1>1 DEF Answer, Presented
  <2>2. CASE Key(Action(key))
    BY <2>1, <2>2, KeyKinds
  <2>3. CASE Decide({pos}, "skipped", "skipped")
    <3>1. Decides({pos}, "skipped")
      BY <2>1, <2>3 DEF Decide, Decides, Restatus, files
    <3> QED
      BY <2>1, <3>1, OneUndecided DEF DecidesSome
  <2>4. CASE Close /\ UNCHANGED <<files, session>>
    BY <2>1, <2>4 DEF Closes, files, session
  <2>5. CASE pc' = "confirm" /\ UNCHANGED <<files, session, counts>>
    BY <2>1, <2>5 DEF Moves, files, session
  <2> QED
    BY <1>1, <2>2, <2>3, <2>4, <2>5 DEF Answer
<1>2. ASSUME NEW key \in {"y", "n", "f", "N", "q", "other"}, AnswerAgain(key)
      PROVE  Moves \/ DecidesSome
  <2>1. crashes = 0 /\ pc = "again" /\ persisted' = persisted
    BY <1>2 DEF AnswerAgain
  <2>2. CASE Key(key)
    BY <2>1, <2>2, KeyKinds
  <2>3. CASE pc' = "save" /\ UNCHANGED <<files, mem, todo, only, counts, approved>>
    BY <2>1, <2>3 DEF Moves, files
  <2> QED
    BY <1>2, <2>2, <2>3 DEF AnswerAgain
<1>3. CASE ConfirmBulk
  <2>1. crashes = 0 /\ Presented /\ Undecided(Bulk)
    BY <1>3, OneUndecided DEF ConfirmBulk, Presented
  <2>2. Decides(Bulk, "skipped")
    BY <1>3 DEF ConfirmBulk, Decide, Decides, Restatus, files
  <2> QED
    BY <2>1, <2>2 DEF DecidesSome
<1>4. CASE Start
  <2>1. pc = "closed"
    BY <1>4 DEF Start, SessionInv
  <2> QED
    BY <1>4, <2>1
<1>5. CASE WriteGolden
  <2>1. crashes = 0 /\ Presented
    BY <1>5 DEF WriteGolden, history, Presented
  <2> QED
    BY <1>5, <2>1, OneUndecided
<1>6. CASE Present
  BY <1>6 DEF Present, Moves, files, history
<1>7. CASE Finish
  BY <1>7 DEF Finish, Closes, files, session, history
<1>8. CASE DeclineBulk
  BY <1>8 DEF DeclineBulk, Moves, files, session
<1> QED
  BY <1>0, <1>1, <1>2, <1>3, <1>4, <1>5, <1>6, <1>7, <1>8 DEF Next

LEMMA OnlyCrashCounts ==
    ASSUME [Next]_vars
    PROVE  Crash \/ crashes' = crashes
<1>1. CASE \E q \in Question : Capture(q)
  BY <1>1 DEF Capture
<1>2. CASE Start \/ Present \/ Finish
  BY <1>2 DEF Start, Present, Finish, history
<1>3. ASSUME NEW key, Answer(key) \/ AnswerAgain(key) PROVE crashes' = crashes
  BY <1>3 DEF Answer, AnswerAgain
<1>4. CASE ConfirmBulk \/ DeclineBulk
  BY <1>4 DEF ConfirmBulk, DeclineBulk
<1>5. CASE WriteGolden \/ BeginSave \/ EndSave \/ UNCHANGED vars
  BY <1>5 DEF WriteGolden, BeginSave, EndSave, vars, history
<1> QED
  BY <1>1, <1>2, <1>3, <1>4, <1>5 DEF Next

LEMMA OnlySavePersists ==
    ASSUME [Next]_vars
    PROVE  EndSave \/ persisted' = persisted
<1>1. CASE \E q \in Question : Capture(q)
  BY <1>1 DEF Capture
<1>2. CASE Start \/ Present \/ Finish
  BY <1>2 DEF Start, Present, Finish, history
<1>3. ASSUME NEW key, Answer(key) \/ AnswerAgain(key) PROVE persisted' = persisted
  BY <1>3 DEF Answer, AnswerAgain
<1>4. CASE ConfirmBulk \/ DeclineBulk
  BY <1>4 DEF ConfirmBulk, DeclineBulk
<1>5. CASE WriteGolden \/ BeginSave \/ Crash \/ UNCHANGED vars
  BY <1>5 DEF WriteGolden, BeginSave, Crash, vars, history
<1> QED
  BY <1>1, <1>2, <1>3, <1>4, <1>5 DEF Next

-----------------------------------------------------------------------------
\* The queue and the decisions in it

\* The queue as it stands: what a session holds in memory, or else the file.
Rows == IF pc = "closed" THEN queue ELSE mem

Distinct(rows) == \A j, k \in DOMAIN rows : rows[j].question = rows[k].question => j = k

\* Between two saves the file holds the candidates of the session, at the same
\* places, and after them what the service appended.
QueueFollows ==
    /\ Distinct(queue)
    /\ DOMAIN mem \subseteq DOMAIN queue
    /\ \A k \in DOMAIN mem : queue[k].question = mem[k].question
    /\ pc # "save" => \A k \in DOMAIN mem : queue[k] = mem[k]
    /\ \A k \in DOMAIN queue \ DOMAIN mem : queue[k].status = "pending"

\* A decision that was saved is a row still, or is just being made again.
DecisionsStand ==
    \A c \in persisted :
        /\ c.status # "pending"
        /\ \/ \E k \in DOMAIN Rows : Rows[k] = c
           \/ pc \in {"save", "saving"} /\ c.status = only

QueueInv ==
    crashes = 0 =>
        /\ Distinct(Rows)
        /\ pc \notin {"closed", "saving"} => QueueFollows
        /\ DecisionsStand

LEMMA QueueInit == Init => QueueInv
<1> SUFFICES ASSUME Init PROVE QueueInv
  OBVIOUS
<1> DEFINE R == [question : Queued, status : {"pending"}]
<1>1. \A x, y \in R : x.question = y.question => x = y
  OBVIOUS
<1> HIDE DEF R
<1>2. /\ queue \in [1 .. Cardinality(Queued) -> R] /\ \A j, k \in DOMAIN queue : queue[j] = queue[k] => j = k
      /\ pc = "closed" /\ persisted = {}
  BY DEF Init, R
<1>3. Distinct(queue)
  BY <1>1, <1>2 DEF Distinct
<1> QED
  BY <1>2, <1>3 DEF QueueInv, Rows, DecisionsStand

\* What the service appends comes after the rows, which stay.
LEMMA CaptureRows ==
    ASSUME TypeInv, NEW q \in Question, Capture(q)
    PROVE  /\ DOMAIN queue' = DOMAIN queue \cup {Len(queue) + 1} /\ Len(queue) + 1 \notin DOMAIN queue
           /\ \A k \in DOMAIN queue : queue'[k] = queue[k]
           /\ queue'[Len(queue) + 1] = [question |-> q, status |-> "pending"]
<1>1. queue \in Seq(Candidate) /\ Len(queue) \in Nat /\ DOMAIN queue = 1 .. Len(queue)
  BY DEF TypeInv, TypeOK
<1> DEFINE new == [question |-> q, status |-> "pending"]
<1>2. queue' = Append(queue, new) /\ new \in Candidate
  BY DEF Capture, Candidate, Status
<1> HIDE DEF new
<1>3. Len(queue') = Len(queue) + 1 /\ queue' \in Seq(Candidate) /\ queue'[Len(queue) + 1] = new
      /\ \A k \in 1 .. Len(queue) : queue'[k] = queue[k]
  BY <1>1, <1>2
<1>4. DOMAIN queue' = 1 .. Len(queue')
  BY <1>3
<1>5. DOMAIN queue' = DOMAIN queue \cup {Len(queue) + 1}
  BY <1>1, <1>3, <1>4
<1> QED
  BY <1>1, <1>3, <1>5 DEF new

LEMMA CaptureQueue ==
    ASSUME TypeInv, QueueInv, crashes = 0, NEW q \in Question, Capture(q)
    PROVE  QueueInv'
<1> DEFINE n == Len(queue) + 1
           new == [question |-> q, status |-> "pending"]
<1>1. DOMAIN queue' = DOMAIN queue \cup {n} /\ n \notin DOMAIN queue
      /\ (\A k \in DOMAIN queue : queue'[k] = queue[k]) /\ queue'[n] = new
  BY CaptureRows
<1>2. new.question = q /\ new.status = "pending"
  OBVIOUS
<1> HIDE DEF n, new
<1>3. /\ \A k \in DOMAIN queue : queue[k].question # q
      /\ UNCHANGED <<pc, mem, only, persisted, crashes>>
  BY DEF Capture, session
<1>4. Distinct(queue) => Distinct(queue')
  BY <1>1, <1>2, <1>3 DEF Distinct
<1>5. Distinct(Rows')
  BY <1>3, <1>4 DEF QueueInv, Rows, Distinct
<1>6. QueueFollows => QueueFollows'
  BY <1>1, <1>2, <1>3, <1>4 DEF QueueFollows
<1>7. DecisionsStand'
  BY <1>1, <1>3 DEF QueueInv, DecisionsStand, Rows
<1> QED
  BY <1>3, <1>5, <1>6, <1>7 DEF QueueInv

\* A decision changes the status of candidates that are being reviewed only.
LEMMA DecideQueue ==
    ASSUME TypeInv, QueueInv, crashes = 0, pc \in {"ask", "confirm", "again", "write"},
           NEW positions, Undecided(positions), NEW status \in Status,
           mem' = Restatus(mem, positions, status), pc' = "save",
           UNCHANGED <<queue, only, persisted>>
    PROVE  QueueInv'
<1>1. /\ DOMAIN mem' = DOMAIN mem
      /\ \A k \in DOMAIN mem : /\ mem'[k].question = mem[k].question
                               /\ k \notin positions => mem'[k] = mem[k]
  BY RestatusTypes DEF TypeInv, TypeOK
<1>2. Distinct(mem) /\ QueueFollows /\ DecisionsStand /\ Rows = mem /\ Rows' = mem'
  BY DEF QueueInv, Rows
<1>3. Distinct(mem')
  BY <1>1, <1>2 DEF Distinct
<1>4. QueueFollows'
  BY <1>1, <1>2 DEF QueueFollows, Distinct
<1>5. DecisionsStand'
  <2> SUFFICES ASSUME NEW c \in persisted
               PROVE  /\ c.status # "pending"
                      /\ (\E k \in DOMAIN mem' : mem'[k] = c) \/ c.status = only
    BY <1>2 DEF DecisionsStand
  <2>1. PICK k \in DOMAIN mem : mem[k] = c
    BY <1>2 DEF DecisionsStand
  <2>2. CASE k \in positions
    BY <1>2, <2>1, <2>2 DEF Undecided, DecisionsStand
  <2>3. CASE k \notin positions
    BY <1>1, <1>2, <2>1, <2>3 DEF DecisionsStand
  <2> QED
    BY <2>2, <2>3
<1> QED
  BY <1>2, <1>3, <1>4, <1>5 DEF QueueInv

LEMMA WriteDecides ==
    ASSUME TypeInv, WriteGolden
    PROVE  /\ mem' = Restatus(mem, {pos}, "accepted") /\ pos \in todo
           /\ pc = "write" /\ pc' = "save"
           /\ UNCHANGED <<queue, todo, only, persisted, crashes>>
<1>1. mem \in Seq(Candidate) /\ pos \in todo /\ todo \subseteq DOMAIN mem
  BY DEF TypeInv, TypeOK, WriteGolden, Presented
<1> QED
  BY <1>1 DEF WriteGolden, Restatus, history

LEMMA StillUncrashed ==
    ASSUME TypeInv, [Next]_vars, crashes' = 0
    PROVE  crashes = 0
<1>1. CASE Crash
  <2>1. crashes' = crashes + 1 /\ crashes \in Nat
    BY <1>1 DEF Crash, TypeInv, TypeOK
  <2> QED
    BY <2>1
<1> QED
  BY <1>1, OnlyCrashCounts

LEMMA QueueNext == TypeInv /\ SessionInv /\ QueueInv /\ [Next]_vars => QueueInv'
<1> SUFFICES ASSUME TypeInv, SessionInv, QueueInv, [Next]_vars, crashes' = 0 PROVE QueueInv'
  BY DEF QueueInv
<1>0. crashes = 0
  BY StillUncrashed
<1>1. ASSUME NEW q \in Question, Capture(q) PROVE QueueInv'
  BY <1>0, <1>1, CaptureQueue
<1>2. CASE Start /\ pc = "closed"
  <2>1. mem' = queue /\ queue' = queue /\ pc' = "next" /\ persisted' = persisted
    BY <1>2 DEF Start, files
  <2>2. Rows = queue /\ Rows' = queue
    BY <1>2, <2>1 DEF Rows
  <2>3. Distinct(queue) /\ DecisionsStand
    BY <1>0, <2>2 DEF QueueInv
  <2>4. QueueFollows'
    BY <2>1, <2>3 DEF QueueFollows, Distinct
  <2>5. DecisionsStand'
    BY <1>2, <2>1, <2>2, <2>3 DEF DecisionsStand
  <2> QED
    BY <2>2, <2>3, <2>4, <2>5 DEF QueueInv
<1>3. CASE Moves
  <2>1. /\ pc \in {"next", "ask", "confirm", "again"} /\ pc' \in {"ask", "confirm", "again", "write", "save"}
        /\ UNCHANGED <<queue, mem, only, persisted>>
    BY <1>3 DEF Moves
  <2>2. Rows = mem /\ Rows' = mem /\ QueueFollows /\ Distinct(mem) /\ DecisionsStand
    BY <1>0, <2>1 DEF Rows, QueueInv
  <2>3. QueueFollows'
    BY <2>1, <2>2 DEF QueueFollows, Distinct
  <2>4. DecisionsStand'
    BY <2>1, <2>2 DEF DecisionsStand
  <2> QED
    BY <2>2, <2>3, <2>4 DEF QueueInv
<1>4. CASE Closes
  <2>1. pc \in {"next", "ask"} /\ pc' = "closed" /\ UNCHANGED <<queue, mem, only, persisted>>
    BY <1>4 DEF Closes, Close
  <2>2. Rows = mem /\ Rows' = queue /\ QueueFollows /\ DecisionsStand
    BY <1>0, <2>1 DEF Rows, QueueInv
  <2>3. DecisionsStand'
    BY <2>1, <2>2 DEF DecisionsStand, QueueFollows
  <2> QED
    BY <2>1, <2>2, <2>3 DEF QueueInv, QueueFollows
<1>5. CASE DecidesSome
  <2>1. PICK positions : \E status \in {"skipped", "flagged"} : Undecided(positions) /\ Decides(positions, status)
    BY <1>5 DEF DecidesSome
  <2>2. PICK status \in {"skipped", "flagged"} : Undecided(positions) /\ Decides(positions, status)
    BY <2>1
  <2>3. status \in Status
    BY DEF Status
  <2> QED
    BY <1>0, <2>2, <2>3, DecideQueue DEF Decides
<1>6. CASE WriteGolden /\ Undecided({pos})
  <2>1. "accepted" \in Status
    BY DEF Status
  <2> QED
    BY <1>0, <1>6, <2>1, WriteDecides, DecideQueue
<1>7. CASE BeginSave
  <2>1. pc = "save" /\ pc' = "saving" /\ UNCHANGED <<mem, only, persisted>>
    BY <1>7 DEF BeginSave, session, history
  <2>2. Rows = mem /\ Rows' = mem
    BY <2>1 DEF Rows
  <2> QED
    BY <1>0, <2>1, <2>2 DEF QueueInv, DecisionsStand
<1>8. CASE EndSave
  <2>1. /\ pc = "saving" /\ pc' = "next" /\ mem' = mem /\ queue' = mem
        /\ persisted' = {mem[k] : k \in {j \in DOMAIN mem : mem[j].status # "pending"}}
    BY <1>8 DEF EndSave, session
  <2>2. Rows = mem /\ Rows' = mem
    BY <2>1 DEF Rows
  <2>3. Distinct(mem)
    BY <1>0, <2>2 DEF QueueInv
  <2>4. QueueFollows'
    BY <2>1, <2>3 DEF QueueFollows, Distinct
  <2>5. DecisionsStand'
    BY <2>1, <2>2 DEF DecisionsStand
  <2> QED
    BY <2>2, <2>3, <2>4, <2>5 DEF QueueInv
<1>9. CASE UNCHANGED vars
  <2>1. UNCHANGED <<queue, mem, pc, only, persisted, crashes>>
    BY <1>9 DEF vars, files, session, history
  <2> QED
    BY <2>1 DEF QueueInv, Rows, QueueFollows, DecisionsStand, Distinct
<1> QED
  BY <1>1, <1>2, <1>3, <1>4, <1>5, <1>6, <1>7, <1>8, <1>9, Kinds

LEMMA QueueHolds == Spec => [](TypeInv /\ SessionInv /\ QueueInv)
  BY NumbersInit, NumbersNext, TypeInit, TypeNext, SessionInit, SessionNext, QueueInit, QueueNext,
     PTL DEF Spec

\* A save never takes back a decision that an earlier save persisted, but for
\* a candidate that is being reviewed again: every save writes what the session
\* holds in memory, which began as the file and lost no row since.
THEOREM DecisionsTheorem == Spec => DecisionsKept
<1>1. QueueInv /\ [Next]_vars => [KeepsDecisions]_vars
  <2> SUFFICES ASSUME QueueInv, [Next]_vars, crashes = 0, NEW c \in persisted, c \notin persisted'
               PROVE  c.status = only
    BY DEF KeepsDecisions
  <2>1. EndSave
    BY OnlySavePersists
  <2>2. /\ pc = "saving" /\ persisted' = {mem[k] : k \in {j \in DOMAIN mem : mem[j].status # "pending"}}
    BY <2>1 DEF EndSave
  <2>3. Rows = mem
    BY <2>2 DEF Rows
  <2> QED
    BY <2>2, <2>3 DEF QueueInv, DecisionsStand
<1> QED
  BY <1>1, QueueHolds, PTL DEF Spec, DecisionsKept

-----------------------------------------------------------------------------
\* The rows and the cases

\* A row has a case exactly if it is marked accepted.
CasesIn(cases, q) == UNION {{<<c, case>> : case \in {x \in cases[c] : x.question = q}} : c \in Category}

CaseOf(cases, row) ==
    IF row.status = "accepted" THEN \E x : CasesIn(cases, row.question) = {x}
    ELSE CasesIn(cases, row.question) = {}

\* Every case added is one of a row.
CasesHaveRows ==
    \A c \in Category : \A case \in golden[c] :
        case.question = "seed" \/ \E k \in DOMAIN Rows : Rows[k].question = case.question

RowsInv ==
    crashes = 0 =>
        /\ only # "accepted"
        /\ \A k \in DOMAIN Rows : CaseOf(golden, Rows[k])
        /\ CasesHaveRows

\* A question that is in no golden file has no case.
LEMMA NoCases ==
    ASSUME NEW q, \A c \in Category : \A case \in golden[c] : case.question # q
    PROVE  CasesIn(golden, q) = {}
<1>1. \A c \in Category : {x \in golden[c] : x.question = q} = {}
  OBVIOUS
<1> QED
  BY <1>1 DEF CasesIn

LEMMA RowsInit == Init => RowsInv
<1> SUFFICES ASSUME Init PROVE RowsInv
  OBVIOUS
<1> DEFINE F == {{[number |-> n, question |-> "seed"] : n \in ns} : ns \in SUBSET (1 .. MaxNumber)}
           R == [question : Queued, status : {"pending"}]
<1>1. \A cases \in F : \A case \in cases : case.question = "seed"
  OBVIOUS
<1>2. \A x \in R : x.question \in Queued /\ x.status = "pending"
  OBVIOUS
<1> HIDE DEF F, R
<1>3. /\ golden \in [Category -> F]
      /\ queue \in [1 .. Cardinality(Queued) -> R] /\ pc = "closed" /\ only = "pending"
  BY DEF Init, F, R
<1>4. \A c \in Category : \A case \in golden[c] : case.question = "seed"
  BY <1>1, <1>3
<1>5. ASSUME NEW k \in DOMAIN queue PROVE CaseOf(golden, queue[k])
  <2>1. queue[k].question \in Question /\ queue[k].status = "pending"
    BY <1>2, <1>3, ReviewAssumption
  <2>2. CasesIn(golden, queue[k].question) = {}
    BY <1>4, <2>1, NoCases, ReviewAssumption
  <2> QED
    BY <2>1, <2>2 DEF CaseOf
<1>6. CasesHaveRows
  BY <1>4 DEF CasesHaveRows
<1> QED
  BY <1>3, <1>5, <1>6 DEF RowsInv, Rows

\* While nobody is saving, the file agrees with the cases as what is in memory
\* does: the service appends questions that have none.
LEMMA FileAgrees ==
    ASSUME TypeInv, QueueInv, RowsInv, crashes = 0, pc \notin {"closed", "save", "saving"}
    PROVE  \A k \in DOMAIN queue : CaseOf(golden, queue[k])
<1>1. /\ QueueFollows /\ CasesHaveRows /\ Rows = mem
      /\ \A k \in DOMAIN mem : CaseOf(golden, mem[k])
  BY DEF QueueInv, RowsInv, Rows
<1> SUFFICES ASSUME NEW k \in DOMAIN queue PROVE CaseOf(golden, queue[k])
  OBVIOUS
<1>2. CASE k \in DOMAIN mem
  BY <1>1, <1>2 DEF QueueFollows
<1>3. CASE k \notin DOMAIN mem
  <2>1. queue[k].status = "pending"
    BY <1>1, <1>3 DEF QueueFollows
  <2>2. queue[k].question \in Question
    <3>1. queue[k] \in Candidate
      BY DEF TypeInv, TypeOK
    <3> QED
      BY <3>1 DEF Candidate
  <2>3. queue[k].question # "seed"
    BY <2>2, ReviewAssumption
  <2>4. \A j \in DOMAIN mem : mem[j].question # queue[k].question
    BY <1>1, <1>3 DEF QueueFollows, Distinct
  <2>5. CasesIn(golden, queue[k].question) = {}
    BY <1>1, <2>3, <2>4, NoCases DEF CasesHaveRows
  <2> QED
    BY <2>1, <2>5 DEF CaseOf
<1> QED
  BY <1>2, <1>3

LEMMA CaptureAgrees ==
    ASSUME TypeInv, RowsInv, crashes = 0, NEW q \in Question, Capture(q)
    PROVE  RowsInv'
<1> DEFINE n == Len(queue) + 1
           new == [question |-> q, status |-> "pending"]
<1>1. DOMAIN queue' = DOMAIN queue \cup {n} /\ n \notin DOMAIN queue
      /\ (\A k \in DOMAIN queue : queue'[k] = queue[k]) /\ queue'[n] = new
  BY CaptureRows
<1>2. new.question = q /\ new.status = "pending"
  OBVIOUS
<1> HIDE DEF n, new
<1>3. /\ \A k \in DOMAIN queue : queue[k].question # q
      /\ UNCHANGED <<golden, pc, mem, only, crashes>>
  BY DEF Capture, session
<1>5. CASE pc = "closed"
  <2>1. Rows = queue /\ Rows' = queue'
    BY <1>3, <1>5 DEF Rows
  <2>2. q # "seed"
    BY ReviewAssumption
  <2>3. CasesIn(golden, q) = {}
    BY <1>3, <2>1, <2>2, NoCases DEF RowsInv, CasesHaveRows
  <2>4. CaseOf(golden, new)
    BY <1>2, <2>3 DEF CaseOf
  <2>5. \A k \in DOMAIN queue' : CaseOf(golden, queue'[k])
    BY <1>1, <2>1, <2>4 DEF RowsInv
  <2>6. CasesHaveRows'
    BY <1>1, <1>3, <2>1 DEF RowsInv, CasesHaveRows
  <2> QED
    BY <1>3, <2>1, <2>5, <2>6 DEF RowsInv
<1>6. CASE pc # "closed"
  <2>1. Rows = mem /\ Rows' = mem
    BY <1>3, <1>6 DEF Rows
  <2> QED
    BY <1>3, <2>1 DEF RowsInv, CasesHaveRows
<1> QED
  BY <1>5, <1>6

\* Skipping and flagging touch rows that have no case.
LEMMA DecideAgrees ==
    ASSUME TypeInv, RowsInv, crashes = 0, NEW positions, NEW status \in {"skipped", "flagged"},
           Undecided(positions), Decides(positions, status), crashes' = crashes
    PROVE  RowsInv'
<1>1. /\ pc # "closed" /\ pc' = "save" /\ UNCHANGED <<golden, only>>
      /\ mem' = Restatus(mem, positions, status)
  BY DEF Decides
<1>2. Rows = mem /\ Rows' = mem' /\ only # "accepted" /\ CasesHaveRows /\ \A k \in DOMAIN mem : CaseOf(golden, mem[k])
  BY <1>1 DEF Rows, RowsInv
<1>3. /\ DOMAIN mem' = DOMAIN mem
      /\ \A k \in DOMAIN mem : /\ mem'[k].question = mem[k].question
                               /\ mem'[k].status = IF k \in positions THEN status ELSE mem[k].status
  BY <1>1, RestatusTypes DEF TypeInv, TypeOK, Status
<1>4. ASSUME NEW k \in DOMAIN mem' PROVE CaseOf(golden, mem'[k])
  <2>1. k \in positions => mem[k].status = only
    BY DEF Undecided
  <2>2. status # "accepted"
    OBVIOUS
  <2> QED
    BY <1>2, <1>3, <2>1, <2>2 DEF CaseOf
<1>5. CasesHaveRows'
  BY <1>1, <1>2, <1>3 DEF CasesHaveRows
<1> QED
  BY <1>1, <1>2, <1>4, <1>5 DEF RowsInv

\* An accepted candidate gets its only case.
LEMMA WriteAgrees ==
    ASSUME TypeInv, QueueInv, RowsInv, crashes = 0, WriteGolden, Undecided({pos})
    PROVE  RowsInv'
<1> DEFINE q == This.question
           d == CategoryOf[q]
           new == [number |-> NextNumber(d), question |-> q]
<1>1. golden' = [golden EXCEPT ![d] = @ \cup {new}]
  BY DEF WriteGolden
<1>2. new.question = q
  OBVIOUS
<1>3. /\ mem' = Restatus(mem, {pos}, "accepted") /\ pos \in DOMAIN mem /\ mem \in Seq(Candidate)
      /\ pc = "write" /\ pc' = "save" /\ UNCHANGED <<only, crashes>>
  BY WriteDecides DEF TypeInv, TypeOK
<1>4. q \in Question /\ d \in Category
  <2>1. mem[pos] \in Candidate
    BY <1>3
  <2> QED
    BY <2>1, ReviewAssumption DEF Candidate, This
<1>5. q = mem[pos].question
  BY DEF This
<1> HIDE DEF q, d, new
<1>6. /\ Rows = mem /\ Rows' = mem' /\ only # "accepted" /\ CasesHaveRows
      /\ \A k \in DOMAIN mem : CaseOf(golden, mem[k])
      /\ Distinct(mem)
  BY <1>3 DEF Rows, RowsInv, QueueInv
<1>7. /\ DOMAIN mem' = DOMAIN mem
      /\ \A k \in DOMAIN mem : /\ mem'[k].question = mem[k].question
                               /\ mem'[k].status = IF k \in {pos} THEN "accepted" ELSE mem[k].status
  BY <1>3, RestatusTypes DEF Status
<1>8. /\ golden'[d] = golden[d] \cup {new}
      /\ \A c \in Category : c # d => golden'[c] = golden[c]
  BY <1>1, <1>4 DEF TypeInv
<1>9. CasesIn(golden, q) = {}
  BY <1>3, <1>5, <1>6 DEF CaseOf, Undecided
<1>10. \A c \in Category : {x \in golden[c] : x.question = q} = {}
  <2> SUFFICES ASSUME NEW c \in Category, NEW x \in golden[c], x.question = q PROVE FALSE
    OBVIOUS
  <2>1. <<c, x>> \in {<<c, case>> : case \in {y \in golden[c] : y.question = q}}
    OBVIOUS
  <2>2. <<c, x>> \in CasesIn(golden, q)
    BY <2>1 DEF CasesIn
  <2> QED
    BY <1>9, <2>2
<1>11. \A c \in Category : {x \in golden'[c] : x.question = q} = IF c = d THEN {new} ELSE {}
  BY <1>2, <1>8, <1>10
<1>12. CasesIn(golden', q) = {<<d, new>>}
  <2>2. \A c \in Category : {<<c, case>> : case \in {x \in golden'[c] : x.question = q}}
                              = IF c = d THEN {<<d, new>>} ELSE {}
    BY <1>11
  <2> QED
    BY <1>4, <2>2 DEF CasesIn
<1>13. ASSUME NEW p, p # q PROVE CasesIn(golden', p) = CasesIn(golden, p)
  <2>1. \A c \in Category : {x \in golden'[c] : x.question = p} = {x \in golden[c] : x.question = p}
    BY <1>2, <1>8, <1>13
  <2>2. \A c \in Category : {<<c, case>> : case \in {x \in golden'[c] : x.question = p}}
                              = {<<c, case>> : case \in {x \in golden[c] : x.question = p}}
    BY <2>1
  <2> QED
    BY <2>2 DEF CasesIn
<1>14. ASSUME NEW k \in DOMAIN mem' PROVE CaseOf(golden', mem'[k])
  <2>1. CASE k = pos
    <3>1. mem'[k].status = "accepted" /\ mem'[k].question = q
      BY <1>3, <1>5, <1>7, <2>1
    <3> QED
      BY <1>12, <3>1 DEF CaseOf
  <2>2. CASE k # pos
    <3>1. mem[k].question # q /\ mem'[k].question = mem[k].question /\ mem'[k].status = mem[k].status
      BY <1>3, <1>5, <1>6, <1>7, <2>2 DEF Distinct
    <3>2. CaseOf(golden, mem[k])
      BY <1>6, <1>7
    <3>3. CasesIn(golden', mem[k].question) = CasesIn(golden, mem[k].question)
      BY <1>13, <3>1
    <3> QED
      BY <3>1, <3>2, <3>3 DEF CaseOf
  <2> QED
    BY <2>1, <2>2
<1>15. CasesHaveRows'
  <2>1. q = mem'[pos].question /\ pos \in DOMAIN mem'
    BY <1>3, <1>5, <1>7
  <2>2. \A c \in Category : \A case \in golden'[c] : case \in golden[c] \/ case.question = q
    BY <1>2, <1>8
  <2> QED
    BY <1>6, <1>7, <2>1, <2>2 DEF CasesHaveRows
<1> QED
  BY <1>3, <1>6, <1>14, <1>15 DEF RowsInv

LEMMA RowsNext ==
    ASSUME "accepted" \notin StatusChoice, TypeInv, SessionInv, QueueInv, RowsInv, [Next]_vars
    PROVE  RowsInv'
<1> SUFFICES ASSUME crashes' = 0 PROVE RowsInv'
  BY DEF RowsInv
<1>0. crashes = 0
  BY StillUncrashed
<1>1. ASSUME NEW q \in Question, Capture(q) PROVE RowsInv'
  BY <1>0, <1>1, CaptureAgrees
<1>2. CASE Start /\ pc = "closed"
  <2>1. mem' = queue /\ pc' = "next" /\ golden' = golden /\ only' \in StatusChoice
    BY <1>2 DEF Start, files
  <2>2. Rows = queue /\ Rows' = queue
    BY <1>2, <2>1 DEF Rows
  <2>3. only' # "accepted"
    BY <2>1
  <2> QED
    BY <1>0, <2>1, <2>2, <2>3 DEF RowsInv, CasesHaveRows
<1>3. CASE Moves
  <2>1. Rows = mem /\ Rows' = mem /\ UNCHANGED <<golden, only>>
    BY <1>3 DEF Moves, Rows
  <2> QED
    BY <1>0, <2>1 DEF RowsInv, CasesHaveRows
<1>4. CASE Closes
  <2>1. pc \in {"next", "ask"} /\ pc' = "closed" /\ UNCHANGED <<queue, golden, mem, only>>
    BY <1>4 DEF Closes, Close
  <2>2. Rows = mem /\ Rows' = queue /\ QueueFollows
    BY <1>0, <2>1 DEF Rows, QueueInv
  <2>3. \A k \in DOMAIN queue : CaseOf(golden, queue[k])
    BY <1>0, <2>1, FileAgrees
  <2>4. CasesHaveRows'
    BY <1>0, <2>1, <2>2 DEF RowsInv, CasesHaveRows, QueueFollows
  <2> QED
    BY <1>0, <2>1, <2>2, <2>3, <2>4 DEF RowsInv
<1>5. CASE DecidesSome
  <2>1. PICK positions : \E status \in {"skipped", "flagged"} : Undecided(positions) /\ Decides(positions, status)
    BY <1>5 DEF DecidesSome
  <2>2. PICK status \in {"skipped", "flagged"} : Undecided(positions) /\ Decides(positions, status)
    BY <2>1
  <2> QED
    BY <1>0, <2>2, DecideAgrees
<1>6. CASE WriteGolden /\ Undecided({pos})
  BY <1>0, <1>6, WriteAgrees
<1>7. CASE BeginSave \/ EndSave
  <2>1. Rows = mem /\ Rows' = mem /\ UNCHANGED <<golden, only>>
    BY <1>7 DEF BeginSave, EndSave, Rows, session
  <2> QED
    BY <1>0, <2>1 DEF RowsInv, CasesHaveRows
<1>8. CASE UNCHANGED vars
  <2>1. UNCHANGED <<queue, golden, mem, pc, only, crashes>>
    BY <1>8 DEF vars, files, session, history
  <2> QED
    BY <2>1 DEF RowsInv, Rows, CasesHaveRows
<1> QED
  BY <1>1, <1>2, <1>3, <1>4, <1>5, <1>6, <1>7, <1>8, Kinds

\* Unless accepted candidates are put up for review again, the queue and the
\* golden files agree whenever a session is between two decisions and none has
\* crashed: a candidate is marked accepted exactly if it has a case, and then
\* it has one.  (Nothing in the code stops a review of accepted candidates:
\* it gives them a second case.)
THEOREM CasesTheorem ==
    ASSUME "accepted" \notin StatusChoice
    PROVE  Spec => []CasesMatchRows
<1>1. TypeInv /\ SessionInv /\ QueueInv /\ RowsInv => CasesMatchRows
  <2> SUFFICES ASSUME TypeInv, QueueInv, RowsInv, pc \in {"closed", "next"}, crashes = 0, NEW k \in DOMAIN queue
               PROVE  Cardinality(CasesOf(queue[k].question)) = IF queue[k].status = "accepted" THEN 1 ELSE 0
    BY DEF CasesMatchRows
  <2>1. CaseOf(golden, queue[k])
    BY FileAgrees DEF RowsInv, Rows
  <2>2. CasesOf(queue[k].question) = CasesIn(golden, queue[k].question)
    BY DEF CasesOf, CasesIn
  <2> QED
    BY <2>1, <2>2, FS_EmptySet, FS_Singleton DEF CaseOf
<1>2. TypeInv /\ SessionInv /\ QueueInv /\ RowsInv /\ [Next]_vars => RowsInv'
  BY RowsNext
<1> QED
  BY <1>1, <1>2, RowsInit, QueueHolds, PTL DEF Spec

-----------------------------------------------------------------------------
\* The summary

\* The candidates to review that are still pending.
Left == {k \in todo : mem[k].status = "pending"}

\* What is counted and what is left are what the session set out to review.
CountsInv ==
    only = "pending" /\ crashes = 0 =>
        IF pc = "closed"
        THEN counts.accepted + counts.skipped + counts.flagged + counts.remaining = Cardinality(todo)
        ELSE /\ counts.accepted + counts.skipped + counts.flagged + Cardinality(Left) = Cardinality(todo)
             /\ \A k \in DOMAIN mem : mem[k].status = "pending" => k \in todo

LEMMA TodoFinite ==
    ASSUME TypeInv
    PROVE  IsFiniteSet(todo) /\ IsFiniteSet(Left) /\ Cardinality(todo) \in Nat /\ Cardinality(Left) \in Nat
<1>1. mem \in Seq(Candidate) /\ todo \subseteq DOMAIN mem
  BY DEF TypeInv, TypeOK
<1>2. IsFiniteSet(todo)
  <2>1. Len(mem) \in Int /\ 1 \in Int /\ todo \subseteq 1 .. Len(mem)
    BY <1>1
  <2>2. IsFiniteSet(1 .. Len(mem))
    BY <2>1, FS_Interval
  <2> QED
    BY <2>1, <2>2, FS_Subset
<1>3. IsFiniteSet(Left)
  BY <1>2, FS_Subset DEF Left
<1> QED
  BY <1>2, <1>3, FS_CardinalityType

\* Candidates decided leave those that are left.
LEMMA DecideLeft ==
    ASSUME TypeInv, only = "pending", NEW positions, Undecided(positions),
           NEW status \in {"accepted", "skipped", "flagged"},
           mem' = Restatus(mem, positions, status), todo' = todo,
           \A k \in DOMAIN mem : mem[k].status = "pending" => k \in todo
    PROVE  /\ Cardinality(positions) \in Nat /\ Cardinality(Left') \in Nat
           /\ Cardinality(Left) = Cardinality(Left') + Cardinality(positions)
           /\ \A k \in DOMAIN mem' : mem'[k].status = "pending" => k \in todo'
<1>1. /\ DOMAIN mem' = DOMAIN mem
      /\ \A k \in DOMAIN mem : mem'[k].status = IF k \in positions THEN status ELSE mem[k].status
  BY RestatusTypes DEF TypeInv, TypeOK, Status
<1>2. status # "pending"
  OBVIOUS
<1>3. todo \subseteq DOMAIN mem
  BY DEF TypeInv, TypeOK
<1>4. positions \subseteq Left
  BY DEF Undecided, Left
<1>5. Left' = Left \ positions
  BY <1>1, <1>2, <1>3 DEF Left
<1>6. IsFiniteSet(Left) /\ IsFiniteSet(positions)
  BY <1>4, TodoFinite, FS_Subset
<1>7. IsFiniteSet(Left') /\ Left' \cap positions = {} /\ Left' \cup positions = Left
  BY <1>4, <1>5, <1>6, FS_Subset
<1>8. Cardinality(Left) = Cardinality(Left') + Cardinality(positions) - Cardinality(Left' \cap positions)
  BY <1>6, <1>7, FS_Union
<1>9. Cardinality(Left' \cap positions) = 0
  BY <1>7, FS_EmptySet
<1>10. Cardinality(positions) \in Nat /\ Cardinality(Left') \in Nat
  BY <1>6, <1>7, FS_CardinalityType
<1>11. \A k \in DOMAIN mem' : mem'[k].status = "pending" => k \in todo'
  BY <1>1, <1>2
<1> QED
  BY <1>8, <1>9, <1>10, <1>11

LEMMA CountsInit == Init => CountsInv
<1> SUFFICES ASSUME Init PROVE CountsInv
  OBVIOUS
<1>1. pc = "closed" /\ todo = {} /\ counts = NoCounts
  BY DEF Init
<1>2. Cardinality(todo) = 0
  BY <1>1, FS_EmptySet
<1> QED
  BY <1>1, <1>2 DEF CountsInv, NoCounts

LEMMA CountsNext == TypeInv /\ SessionInv /\ CountsInv /\ [Next]_vars => CountsInv'
<1> SUFFICES ASSUME TypeInv, SessionInv, CountsInv, [Next]_vars, only' = "pending", crashes' = 0
             PROVE  CountsInv'
  BY DEF CountsInv
<1>0. crashes = 0
  BY StillUncrashed
<1> DEFINE n == counts.accepted + counts.skipped + counts.flagged
<1>t. counts \in [accepted : Nat, skipped : Nat, flagged : Nat, remaining : Nat]
  BY DEF TypeInv, TypeOK
<1>1. ASSUME UNCHANGED <<pc, mem, todo, only, counts>> PROVE CountsInv'
  BY <1>0, <1>1 DEF CountsInv, Left
<1>2. ASSUME NEW q \in Question, Capture(q) PROVE CountsInv'
  BY <1>1, <1>2 DEF Capture, session
<1>3. CASE Start
  <2>1. /\ mem' = queue /\ todo' = {k \in DOMAIN queue : queue[k].status = "pending"}
        /\ counts' = [NoCounts EXCEPT !.remaining = Cardinality(todo')] /\ pc' = "next"
    BY <1>3 DEF Start
  <2>2. counts'.accepted = 0 /\ counts'.skipped = 0 /\ counts'.flagged = 0
    BY <2>1 DEF NoCounts
  <2>3. Left' = todo'
    BY <2>1 DEF Left
  <2>4. IsFiniteSet(todo')
    <3>1. queue \in Seq(Candidate)
      BY DEF TypeInv, TypeOK
    <3>2. Len(queue) \in Int /\ 1 \in Int /\ todo' \subseteq 1 .. Len(queue)
      BY <2>1, <3>1
    <3>3. IsFiniteSet(1 .. Len(queue))
      BY <3>2, FS_Interval
    <3> QED
      BY <3>2, <3>3, FS_Subset
  <2>5. Cardinality(todo') \in Nat
    BY <2>4, FS_CardinalityType
  <2> QED
    BY <2>1, <2>2, <2>3, <2>5 DEF CountsInv
<1>4. CASE Moves
  <2>1. pc # "closed" /\ pc' # "closed" /\ UNCHANGED <<mem, todo, only, counts>>
    BY <1>4 DEF Moves
  <2> QED
    BY <1>0, <2>1 DEF CountsInv, Left
<1>5. CASE Closes
  <2>1. /\ pc # "closed" /\ pc' = "closed" /\ UNCHANGED <<mem, todo, only>>
        /\ counts' = [counts EXCEPT !.remaining = Remaining(mem)]
    BY <1>5 DEF Closes, Close
  <2>2. /\ n + Cardinality(Left) = Cardinality(todo)
        /\ \A k \in DOMAIN mem : mem[k].status = "pending" => k \in todo
    BY <1>0, <2>1 DEF CountsInv
  <2>3. {k \in DOMAIN mem : mem[k].status = only} = Left
    BY <2>1, <2>2 DEF Left, TypeInv, TypeOK
  <2>4. Remaining(mem) = Cardinality(Left)
    BY <2>3 DEF Remaining
  <2>5. /\ counts'.accepted = counts.accepted /\ counts'.skipped = counts.skipped
        /\ counts'.flagged = counts.flagged /\ counts'.remaining = Cardinality(Left)
    BY <1>t, <2>1, <2>4
  <2> QED
    BY <2>1, <2>2, <2>5 DEF CountsInv
<1>6. CASE DecidesSome
  <2>1. PICK positions : \E status \in {"skipped", "flagged"} : Undecided(positions) /\ Decides(positions, status)
    BY <1>6 DEF DecidesSome
  <2>2. PICK status \in {"skipped", "flagged"} : Undecided(positions) /\ Decides(positions, status)
    BY <2>1
  <2>3. /\ pc # "closed" /\ pc' # "closed" /\ only = "pending" /\ todo' = todo
        /\ mem' = Restatus(mem, positions, status)
        /\ counts' = [counts EXCEPT ![status] = @ + Cardinality(positions)]
    BY <2>2 DEF Decides
  <2>4. /\ n + Cardinality(Left) = Cardinality(todo)
        /\ \A k \in DOMAIN mem : mem[k].status = "pending" => k \in todo
    BY <1>0, <2>3 DEF CountsInv
  <2>5. /\ Cardinality(positions) \in Nat /\ Cardinality(Left') \in Nat
        /\ Cardinality(Left) = Cardinality(Left') + Cardinality(positions)
        /\ \A k \in DOMAIN mem' : mem'[k].status = "pending" => k \in todo'
    BY <2>2, <2>3, <2>4, DecideLeft
  <2>6. counts'.accepted + counts'.skipped + counts'.flagged = n + Cardinality(positions)
    <3>1. CASE status = "skipped"
      BY <1>t, <2>3, <2>5, <3>1
    <3>2. CASE status = "flagged"
      BY <1>t, <2>3, <2>5, <3>2
    <3> QED
      BY <3>1, <3>2
  <2>7. n \in Nat /\ Cardinality(todo) \in Nat
    BY <1>t, TodoFinite
  <2> HIDE DEF n
  <2>8. counts'.accepted + counts'.skipped + counts'.flagged + Cardinality(Left') = Cardinality(todo')
    BY <2>3, <2>4, <2>5, <2>6, <2>7
  <2> QED
    BY <2>3, <2>5, <2>8 DEF CountsInv
<1>7. CASE WriteGolden /\ Undecided({pos})
  <2>1. /\ mem' = Restatus(mem, {pos}, "accepted") /\ UNCHANGED <<todo, only>>
        /\ pc = "write" /\ pc' = "save"
    BY <1>7, WriteDecides
  <2>2. counts' = [counts EXCEPT !.accepted = @ + 1]
    BY <1>7 DEF WriteGolden
  <2>3. /\ n + Cardinality(Left) = Cardinality(todo)
        /\ \A k \in DOMAIN mem : mem[k].status = "pending" => k \in todo
    BY <1>0, <2>1 DEF CountsInv
  <2>4. /\ Cardinality(Left') \in Nat
        /\ Cardinality(Left) = Cardinality(Left') + Cardinality({pos})
        /\ \A k \in DOMAIN mem' : mem'[k].status = "pending" => k \in todo'
    BY <1>7, <2>1, <2>3, DecideLeft
  <2>5. Cardinality({pos}) = 1
    BY FS_Singleton
  <2>6. /\ counts'.accepted = counts.accepted + 1 /\ counts'.skipped = counts.skipped
        /\ counts'.flagged = counts.flagged
    BY <1>t, <2>2
  <2>7. counts'.accepted + counts'.skipped + counts'.flagged + Cardinality(Left') = Cardinality(todo')
    BY <1>t, <2>1, <2>3, <2>4, <2>5, <2>6, TodoFinite
  <2> QED
    BY <2>1, <2>4, <2>7 DEF CountsInv
<1>8. CASE BeginSave \/ EndSave
  <2>1. pc # "closed" /\ pc' # "closed" /\ UNCHANGED <<mem, todo, only, counts>>
    BY <1>8 DEF BeginSave, EndSave, session
  <2> QED
    BY <1>0, <2>1 DEF CountsInv, Left
<1>9. CASE UNCHANGED vars
  BY <1>1, <1>9 DEF vars, session
<1> QED
  BY <1>2, <1>3, <1>4, <1>5, <1>6, <1>7, <1>8, <1>9, Kinds

\* The summary of a review of pending candidates that no crash cut off accounts
\* for each candidate it set out to review, also those a bulk skip resolved
\* before they were presented.
THEOREM CountsTheorem == Spec => []CountsAgree
<1>1. CountsInv => CountsAgree
  BY DEF CountsInv, CountsAgree
<1> QED
  BY <1>1, CountsInit, CountsNext, QueueHolds, PTL DEF Spec

-----------------------------------------------------------------------------
\* What the generator keeps

\* What holds of zero, and of the successor of each number it holds of, holds of
\* all: induction, over a set of numbers.
LEMMA Induction ==
    ASSUME NEW S, 0 \in S, \A n \in Nat : n \in S => n + 1 \in S
    PROVE  Nat \subseteq S
<1> DEFINE Less == {ss \in Nat \X Nat : ss[1] < ss[2]}
           Rest == Nat \ S
<1>1. IsWellFoundedOn(Less, Nat)
  BY NatLessThanWellFounded DEF OpToRel
<1> SUFFICES ASSUME Rest # {} PROVE FALSE
  OBVIOUS
<1>2. PICK x \in Rest : \A y \in Rest : <<y, x>> \notin Less
  <2>1. Rest \subseteq Nat
    OBVIOUS
  <2> HIDE DEF Less, Rest
  <2> QED
    BY <1>1, <2>1, WFMin
<1>3. x \in Nat /\ x # 0 /\ x - 1 \in Nat
  OBVIOUS
<1>4. x - 1 \notin S
  BY <1>3
<1>5. <<x - 1, x>> \in Less
  BY <1>3
<1> QED
  BY <1>2, <1>3, <1>4, <1>5

\* The questions kept after each of those offered.
LEMMA DedupeSteps ==
    ASSUME NEW questions \in Seq(Question)
    PROVE  \E f \in [0 .. Len(questions) -> Seq(Question)] :
              /\ f[0] = << >> /\ Dedupe(questions) = f[Len(questions)]
              /\ \A n \in 1 .. Len(questions) : f[n] = Offer(f[n - 1], questions[n])
<1> DEFINE N == Len(questions)
           Is(g) == [n \in 0 .. N |-> IF n = 0 THEN << >> ELSE Offer(g[n - 1], questions[n])]
           Upto(m) == \E g \in [0 .. m -> Seq(Question)] :
                         g[0] = << >> /\ \A n \in 1 .. m : g[n] = Offer(g[n - 1], questions[n])
           S == {m \in Nat : m <= N => Upto(m)}
<1>1. N \in Nat
  OBVIOUS
<1>2. 0 \in S
  <2>1. << >> \in Seq(Question)
    OBVIOUS
  <2> DEFINE g == [n \in 0 .. 0 |-> << >>]
  <2>2. g \in [0 .. 0 -> Seq(Question)] /\ g[0] = << >> /\ \A n \in 1 .. 0 : FALSE
    BY <2>1
  <2> QED
    BY <2>2
<1>3. ASSUME NEW m \in Nat, m \in S PROVE m + 1 \in S
  <2> SUFFICES ASSUME m + 1 <= N PROVE Upto(m + 1)
    <3> HIDE DEF Upto
    <3> QED
      OBVIOUS
  <2>1. PICK g \in [0 .. m -> Seq(Question)] :
                     g[0] = << >> /\ \A n \in 1 .. m : g[n] = Offer(g[n - 1], questions[n])
    BY <1>1, <1>3
  <2> DEFINE x == Offer(g[m], questions[m + 1])
             h == [n \in 0 .. (m + 1) |-> IF n = m + 1 THEN x ELSE g[n]]
  <2>2. g[m] \in Seq(Question) /\ questions[m + 1] \in Question
    BY <1>1, <2>1
  <2>3. x \in Seq(Question)
    BY <2>2 DEF Offer
  <2> HIDE DEF x
  <2>4. h \in [0 .. (m + 1) -> Seq(Question)] /\ h[0] = << >>
    BY <2>1, <2>3
  <2>5. \A n \in 0 .. m : h[n] = g[n]
    OBVIOUS
  <2>6. h[m + 1] = x
    OBVIOUS
  <2> HIDE DEF h
  <2>7. ASSUME NEW n \in 1 .. (m + 1) PROVE h[n] = Offer(h[n - 1], questions[n])
    <3>1. CASE n = m + 1
      <4>1. h[n - 1] = g[m] /\ h[n] = x
        BY <2>5, <2>6, <3>1
      <4> QED
        BY <3>1, <4>1 DEF x
    <3>2. CASE n # m + 1
      <4>1. n \in 1 .. m /\ n \in 0 .. m /\ n - 1 \in 0 .. m
        BY <3>2
      <4> QED
        BY <2>1, <2>5, <4>1
    <3> QED
      BY <3>1, <3>2
  <2> QED
    BY <2>4, <2>7
<1>4. N \in S
  <2> HIDE DEF S
  <2> QED
    BY <1>1, <1>2, <1>3, Induction
<1>5. PICK g \in [0 .. N -> Seq(Question)] :
                     g[0] = << >> /\ \A n \in 1 .. N : g[n] = Offer(g[n - 1], questions[n])
  BY <1>1, <1>4
<1>6. g = Is(g)
  BY <1>1, <1>5
<1> DEFINE f == CHOOSE f : f = Is(f)
<1>7. f = Is(f)
  BY <1>6
<1>8. Dedupe(questions) = f[N]
  BY DEF Dedupe
<1>9. \A n \in 0 .. N : f[n] = IF n = 0 THEN << >> ELSE Offer(f[n - 1], questions[n])
  <2> HIDE DEF f
  <2> QED
    BY <1>7
<1>10. f = g
  <2> DEFINE T == {m \in Nat : m <= N => f[m] = g[m]}
  <2>1. 0 \in T
    BY <1>1, <1>5, <1>9
  <2>2. ASSUME NEW m \in Nat, m \in T PROVE m + 1 \in T
    <3> SUFFICES ASSUME m + 1 <= N PROVE f[m + 1] = g[m + 1]
      <4> HIDE DEF f
      <4> QED
        OBVIOUS
    <3> HIDE DEF f
    <3>1. f[m] = g[m] /\ m + 1 \in 1 .. N /\ m + 1 \in 0 .. N /\ m + 1 # 0 /\ (m + 1) - 1 = m
      BY <1>1, <2>2
    <3> QED
      BY <1>5, <1>9, <3>1
  <2> HIDE DEF f
  <2>3. Nat \subseteq T
    <3> HIDE DEF T
    <3> QED
      BY <2>1, <2>2, Induction
  <2>4. \A m \in 0 .. N : f[m] = g[m]
    BY <1>1, <2>3
  <2>5. f = [n \in 0 .. N |-> f[n]]
    BY <1>7, <1>9
  <2> QED
    BY <1>5, <2>4, <2>5
<1> QED
  <2> HIDE DEF f
  <2> QED
    BY <1>5, <1>8, <1>10

NoTwinsIn(found) == \A j, k \in DOMAIN found : j < k => <<found[k], found[j]>> \notin Twin

\* What was found is found after, and q or a twin of it.
Enlarges(after, found, q) ==
    /\ NoTwinsIn(after)
    /\ DOMAIN found \subseteq DOMAIN after /\ \A k \in DOMAIN found : after[k] = found[k]
    /\ \E k \in DOMAIN after : <<q, after[k]>> \in Twin

\* Offering a question keeps it or a twin of it, and drops nothing kept.
LEMMA OfferKeeps ==
    ASSUME NEW found \in Seq(Question), NoTwinsIn(found), NEW q \in Question,
           NEW after, after = Offer(found, q)
    PROVE  after \in Seq(Question) /\ Enlarges(after, found, q)
<1>1. CASE \E k \in DOMAIN found : <<q, found[k]>> \in Twin
  BY <1>1 DEF Offer, Enlarges
<1>2. CASE \A k \in DOMAIN found : <<q, found[k]>> \notin Twin
  <2>1. after = Append(found, q)
    BY <1>2 DEF Offer
  <2>2. /\ after \in Seq(Question) /\ Len(after) = Len(found) + 1 /\ Len(found) \in Nat
        /\ \A k \in 1 .. Len(found) : after[k] = found[k]
        /\ after[Len(found) + 1] = q
    BY <2>1
  <2>3. DOMAIN found = 1 .. Len(found) /\ DOMAIN after = 1 .. Len(found) + 1
    BY <2>2
  <2>4. NoTwinsIn(after)
    <3> SUFFICES ASSUME NEW j \in DOMAIN after, NEW k \in DOMAIN after, j < k
                 PROVE  <<after[k], after[j]>> \notin Twin
      BY DEF NoTwinsIn
    <3>1. j \in DOMAIN found /\ after[j] = found[j]
      BY <2>2, <2>3
    <3>2. CASE k \in DOMAIN found
      BY <2>2, <2>3, <3>1, <3>2 DEF NoTwinsIn
    <3>3. CASE k \notin DOMAIN found
      <4>1. k = Len(found) + 1
        BY <2>2, <2>3, <3>3
      <4> QED
        BY <1>2, <2>2, <3>1, <4>1
    <3> QED
      BY <3>2, <3>3
  <2>5. Len(found) + 1 \in DOMAIN after /\ <<q, after[Len(found) + 1]>> \in Twin
    <3>1. <<q, q>> \in Twin
      BY ExpansionAssumption
    <3> QED
      BY <2>2, <2>3, <3>1
  <2>6. DOMAIN found \subseteq DOMAIN after /\ \A k \in DOMAIN found : after[k] = found[k]
    BY <2>2, <2>3
  <2>7. \E k \in DOMAIN after : <<q, after[k]>> \in Twin
    BY <2>5
  <2> QED
    BY <2>2, <2>4, <2>6, <2>7 DEF Enlarges
<1> QED
  BY <1>1, <1>2

\* No question kept is a twin of one kept before it, and each question is a
\* twin of one that is kept.
LEMMA DedupeFacts ==
    ASSUME NEW questions \in Seq(Question), NEW kept1, kept1 = Dedupe(questions)
    PROVE  /\ kept1 \in Seq(Question) /\ NoTwinsIn(kept1)
           /\ \A d \in DOMAIN questions : \E k \in DOMAIN kept1 : <<questions[d], kept1[k]>> \in Twin
<1> DEFINE N == Len(questions)
<1>1. N \in Nat /\ DOMAIN questions = 1 .. N
  OBVIOUS
<1>2. PICK f \in [0 .. N -> Seq(Question)] :
         /\ f[0] = << >> /\ Dedupe(questions) = f[N]
         /\ \A n \in 1 .. N : f[n] = Offer(f[n - 1], questions[n])
  BY DedupeSteps
<1> DEFINE Good(n) == /\ NoTwinsIn(f[n])
                      /\ \A d \in 1 .. n : \E k \in DOMAIN f[n] : <<questions[d], f[n][k]>> \in Twin
           S == {n \in Nat : n <= N => Good(n)}
<1>3. 0 \in S
  <2>1. Good(0)
    BY <1>2 DEF NoTwinsIn
  <2> HIDE DEF Good
  <2> QED
    BY <2>1
<1>4. ASSUME NEW n \in Nat, n \in S PROVE n + 1 \in S
  <2> SUFFICES ASSUME n + 1 <= N PROVE Good(n + 1)
    <3> HIDE DEF Good
    <3> QED
      OBVIOUS
  <2>1. Good(n)
    <3> HIDE DEF Good
    <3> QED
      BY <1>1, <1>4
  <2>2. f[n] \in Seq(Question) /\ questions[n + 1] \in Question /\ f[n + 1] = Offer(f[n], questions[n + 1])
    <3>1. n + 1 \in 1 .. N /\ (n + 1) - 1 = n /\ n \in 0 .. N
      BY <1>1
    <3> QED
      BY <1>1, <1>2, <3>1
  <2>3. Enlarges(f[n + 1], f[n], questions[n + 1])
    <3>1. NoTwinsIn(f[n])
      BY <2>1
    <3> HIDE DEF Good, S, N
    <3> QED
      BY <2>2, <3>1, OfferKeeps
  <2>4. ASSUME NEW d \in 1 .. (n + 1)
        PROVE  \E k \in DOMAIN f[n + 1] : <<questions[d], f[n + 1][k]>> \in Twin
    <3>1. CASE d = n + 1
      BY <2>3, <3>1 DEF Enlarges
    <3>2. CASE d # n + 1
      <4>1. d \in 1 .. n
        BY <3>2
      <4> QED
        BY <2>1, <2>3, <4>1 DEF Enlarges
    <3> QED
      BY <3>1, <3>2
  <2> QED
    BY <2>3, <2>4 DEF Enlarges
<1>5. Good(N)
  <2> HIDE DEF Good
  <2>1. Nat \subseteq S
    <3> HIDE DEF S
    <3> QED
      BY <1>3, <1>4, Induction
  <2> QED
    BY <1>1, <2>1
<1> QED
  BY <1>1, <1>2, <1>5

\* What is written is what was kept of the drafts.
DraftsInv ==
    /\ drafts \in Seq(Question)
    /\ gen = "writing" => kept = Dedupe(drafts)

\* The reviewer is not asked the same thing twice, and a question is dropped
\* only for a twin that is kept, for any relation of resemblance, also one that
\* is neither symmetric nor transitive, as SequenceMatcher's is.
THEOREM NoTwinsTheorem == ExpansionSpec => []NoTwins
<1>1. ExpansionInit => DraftsInv
  <2>1. << >> \in Seq(Question)
    OBVIOUS
  <2> QED
    BY <2>1 DEF ExpansionInit, DraftsInv
<1>2. DraftsInv /\ [Generate \/ Review]_allVars => DraftsInv'
  <2> SUFFICES ASSUME DraftsInv, [Generate \/ Review]_allVars PROVE DraftsInv'
    OBVIOUS
  <2>1. CASE StartExpansion
    <3>1. drafts' = << >> /\ gen' = "drafting"
      BY <2>1 DEF StartExpansion
    <3>2. << >> \in Seq(Question)
      OBVIOUS
    <3> QED
      BY <3>1, <3>2 DEF DraftsInv
  <2>2. CASE DraftDropped
    BY <2>2 DEF DraftDropped, DraftsInv
  <2>3. ASSUME NEW q \in Question, Draft(q) PROVE DraftsInv'
    <3>1. gen' = "drafting" /\ (drafts' = drafts \/ drafts' = Append(drafts, q))
      BY <2>3 DEF Draft
    <3> QED
      BY <3>1 DEF DraftsInv
  <2>4. CASE BeginWrite
    BY <2>4 DEF BeginWrite, DraftsInv
  <2>5. CASE EndWrite \/ ExpansionFails
    <3>1. gen' = "off" /\ drafts' = drafts
      BY <2>5 DEF EndWrite, ExpansionFails
    <3> QED
      BY <3>1 DEF DraftsInv
  <2>6. CASE UNCHANGED generator
    BY <2>6 DEF generator, DraftsInv
  <2> QED
    BY <2>1, <2>2, <2>3, <2>4, <2>5, <2>6 DEF Generate, Review, allVars
<1>3. DraftsInv => NoTwins
  BY DedupeFacts DEF DraftsInv, NoTwins, NoTwinsIn
<1> QED
  BY <1>1, <1>2, <1>3, PTL DEF ExpansionSpec

-----------------------------------------------------------------------------
\* The round-robin over the topics

\* Positions in a strict total order of finitely many things, each with the set
\* of those before it.
Before(P, A) ==
    /\ A \in [P -> SUBSET P]
    /\ \A c \in P : c \notin A[c]
    /\ \A c, d \in P : c # d => c \in A[d] \/ d \in A[c]
    /\ \A c, d \in P : c \in A[d] => A[c] \subseteq A[d]

LEMMA NoMore ==
    ASSUME NEW S, IsFiniteSet(S), NEW T, IsFiniteSet(T), NEW f \in [S -> T], \A a, b \in S : f[a] = f[b] => a = b
    PROVE  Cardinality(S) <= Cardinality(T)
<1>1. Cardinality(S) \in Nat /\ Cardinality(T) \in Nat
  BY FS_CardinalityType
<1>2. ~(Cardinality(T) < Cardinality(S))
  BY FS_PigeonHole
<1> QED
  BY <1>1, <1>2

LEMMA Positions ==
    ASSUME NEW P, IsFiniteSet(P), NEW A, Before(P, A)
    PROVE  /\ Cardinality(P) \in Nat
           /\ \A c \in P : Cardinality(A[c]) \in 0 .. Cardinality(P) - 1
           /\ \A c, d \in P : c \in A[d] => Cardinality(A[c]) < Cardinality(A[d])
           /\ \A c, d \in P : Cardinality(A[c]) = Cardinality(A[d]) => c = d
           /\ \A i \in 0 .. Cardinality(P) - 1 : \E c \in P : Cardinality(A[c]) = i
<1> DEFINE N == Cardinality(P)
           f == [c \in P |-> Cardinality(A[c])]
<1>1. N \in Nat
  BY FS_CardinalityType
<1>2. ASSUME NEW c \in P PROVE IsFiniteSet(A[c]) /\ Cardinality(A[c]) \in 0 .. N - 1
  <2>1. A[c] \in SUBSET (P \ {c})
    BY DEF Before
  <2>2. IsFiniteSet(P \ {c}) /\ Cardinality(P \ {c}) = N - 1
    BY FS_RemoveElement
  <2>3. IsFiniteSet(A[c]) /\ Cardinality(A[c]) <= N - 1 /\ Cardinality(A[c]) \in Nat
    BY <2>1, <2>2, FS_Subset, FS_CardinalityType
  <2> HIDE DEF N
  <2> QED
    BY <1>1, <2>3
<1>3. ASSUME NEW c \in P, NEW d \in P, c \in A[d] PROVE Cardinality(A[c]) < Cardinality(A[d])
  <2>1. A[c] \cup {c} \in SUBSET A[d] /\ c \notin A[c]
    BY <1>3 DEF Before
  <2>2. Cardinality(A[c] \cup {c}) = Cardinality(A[c]) + 1
    BY <1>2, <2>1, FS_AddElement
  <2>3. Cardinality(A[c] \cup {c}) <= Cardinality(A[d])
    BY <1>2, <2>1, FS_Subset
  <2>4. Cardinality(A[c]) \in Int /\ Cardinality(A[d]) \in Int
    BY <1>2
  <2> QED
    BY <2>2, <2>3, <2>4
<1>4. ASSUME NEW c \in P, NEW d \in P, Cardinality(A[c]) = Cardinality(A[d]) PROVE c = d
  <2> SUFFICES ASSUME c # d PROVE FALSE
    OBVIOUS
  <2>1. c \in A[d] \/ d \in A[c]
    BY DEF Before
  <2>2. Cardinality(A[c]) < Cardinality(A[d]) \/ Cardinality(A[d]) < Cardinality(A[c])
    BY <1>3, <2>1
  <2>3. Cardinality(A[c]) \in Int /\ Cardinality(A[d]) \in Int
    BY <1>2
  <2> QED
    BY <1>4, <2>2, <2>3
<1>5. IsFiniteSet(0 .. N - 1) /\ Cardinality(0 .. N - 1) = N
  <2>1. 0 \in Int /\ N - 1 \in Int
    BY <1>1
  <2>2. IsFiniteSet(0 .. N - 1) /\ Cardinality(0 .. N - 1) = IF 0 > N - 1 THEN 0 ELSE (N - 1) - 0 + 1
    BY <2>1, FS_Interval
  <2> HIDE DEF N
  <2> QED
    BY <1>1, <2>2
<1>6. ASSUME NEW i \in 0 .. N - 1 PROVE \E c \in P : Cardinality(A[c]) = i
  <2> SUFFICES ASSUME \A c \in P : Cardinality(A[c]) # i PROVE FALSE
    OBVIOUS
  <2> DEFINE Z == 0 .. N - 1
             T == Z \ {i}
  <2>1. IsFiniteSet(T) /\ Cardinality(T) = N - 1
    <3>1. IsFiniteSet(Z) /\ Cardinality(Z) = N /\ i \in Z
      BY <1>5
    <3> HIDE DEF Z, N
    <3> QED
      BY <3>1, FS_RemoveElement
  <2>2. f \in [P -> T] /\ \A c, d \in P : f[c] = f[d] => c = d
    BY <1>2, <1>4
  <2> HIDE DEF f, T
  <2>3. N <= Cardinality(T)
    BY <2>1, <2>2, NoMore
  <2> HIDE DEF N
  <2> QED
    BY <1>1, <2>1, <2>3
<1> QED
  BY <1>1, <1>2, <1>3, <1>4, <1>6

Bucket(P, t) == {d \in P : TopicOf[d] = t}

LEMMA BucketPlaces ==
    ASSUME NEW P \in SUBSET Chunk, IsFiniteSet(P), NEW place \in Shuffles(P), NEW c \in P
    PROVE  LET t == TopicOf[c]
           IN  /\ IsFiniteSet(Bucket(P, t)) /\ Cardinality(Bucket(P, t)) \in Nat
               /\ place[c] \in 1 .. Cardinality(Bucket(P, t))
               /\ \A x \in 1 .. Cardinality(Bucket(P, t)) : \E d \in Bucket(P, t) : place[d] = x
               /\ \A d \in Bucket(P, t) : place[d] = place[c] => d = c
<1> DEFINE t == TopicOf[c]
           B == Bucket(P, t)
           K == Cardinality(B)
<1>1. B \in SUBSET P
  BY DEF Bucket
<1>2. IsFiniteSet(B) /\ K \in Nat
  BY <1>1, FS_Subset, FS_CardinalityType
<1>3. {place[d] : d \in B} = 1 .. K
  BY DEF Shuffles, Bucket
<1>4. c \in B
  BY DEF Bucket
<1> HIDE DEF B
<1>5. place[c] \in 1 .. K /\ \A x \in 1 .. K : \E d \in B : place[d] = x
  BY <1>3, <1>4
<1>6. ASSUME NEW d \in B, place[d] = place[c], d # c PROVE FALSE
  <2> DEFINE R == B \ {c}
             h == [x \in 1 .. K |-> CHOOSE e \in R : place[e] = x]
  <2>1. IsFiniteSet(R) /\ Cardinality(R) = K - 1
    BY <1>2, <1>4, FS_RemoveElement
  <2>2. \A x \in 1 .. K : \E e \in R : place[e] = x
    <3> SUFFICES ASSUME NEW x \in 1 .. K PROVE \E e \in R : place[e] = x
      OBVIOUS
    <3>1. PICK e \in B : place[e] = x
      BY <1>5
    <3> QED
      BY <1>6, <3>1
  <2> HIDE DEF R
  <2>3. \A x \in 1 .. K : h[x] \in R /\ place[h[x]] = x
    BY <2>2
  <2>4. h \in [1 .. K -> R] /\ \A x, y \in 1 .. K : h[x] = h[y] => x = y
    BY <2>3
  <2> HIDE DEF h
  <2>5. IsFiniteSet(1 .. K) /\ Cardinality(1 .. K) = K
    <3>1. 1 \in Int /\ K \in Int
      BY <1>2
    <3>2. IsFiniteSet(1 .. K) /\ Cardinality(1 .. K) = IF 1 > K THEN 0 ELSE K - 1 + 1
      BY <3>1, FS_Interval
    <3> HIDE DEF K
    <3> QED
      BY <1>2, <3>2
  <2>6. Cardinality(1 .. K) <= Cardinality(R)
    BY <2>1, <2>4, <2>5, NoMore
  <2> HIDE DEF K
  <2> QED
    BY <1>2, <2>1, <2>5, <2>6
<1> QED
  BY <1>2, <1>5, <1>6 DEF B

\* The round-robin takes its chunks one after the other.
LEMMA AheadOrder ==
    ASSUME NEW P \in SUBSET Chunk, IsFiniteSet(P), NEW place \in Shuffles(P)
    PROVE  Before(P, [c \in P |-> Ahead(c, place)])
<1> DEFINE A == [c \in P |-> Ahead(c, place)]
           topic(c) == TopicOf[c]
<1>1. DOMAIN place = P /\ \A c \in P : place[c] \in Int
  <2>1. place \in [P -> 1 .. Cardinality(P)]
    BY DEF Shuffles
  <2> QED
    BY <2>1
<1>2. \A c \in P : Rank[TopicOf[c]] \in Int
  BY ExpansionAssumption
<1>3. \A c, d \in P : c \in A[d] <=>
          \/ place[c] < place[d]
          \/ place[c] = place[d] /\ Rank[TopicOf[c]] < Rank[TopicOf[d]]
  BY <1>1 DEF Ahead
<1>4. \A c, d \in P : place[c] = place[d] /\ Rank[TopicOf[c]] = Rank[TopicOf[d]] => c = d
  <2> SUFFICES ASSUME NEW c \in P, NEW d \in P, place[c] = place[d], Rank[TopicOf[c]] = Rank[TopicOf[d]]
               PROVE  c = d
    OBVIOUS
  <2>1. TopicOf[d] = TopicOf[c]
    BY ExpansionAssumption
  <2>2. d \in Bucket(P, TopicOf[c])
    BY <2>1 DEF Bucket
  <2> QED
    BY <2>2, BucketPlaces
<1>5. A \in [P -> SUBSET P]
  BY <1>1 DEF Ahead
<1> HIDE DEF A
<1>6. \A c \in P : c \notin A[c]
  BY <1>1, <1>2, <1>3
<1>7. \A c, d \in P : c # d => c \in A[d] \/ d \in A[c]
  <2> SUFFICES ASSUME NEW c \in P, NEW d \in P, c # d PROVE c \in A[d] \/ d \in A[c]
    OBVIOUS
  <2>1. place[c] \in Int /\ place[d] \in Int /\ Rank[TopicOf[c]] \in Int /\ Rank[TopicOf[d]] \in Int
    BY <1>1, <1>2
  <2>2. place[c] # place[d] \/ Rank[TopicOf[c]] # Rank[TopicOf[d]]
    BY <1>4
  <2> QED
    BY <1>3, <2>1, <2>2
<1>8. ASSUME NEW c \in P, NEW d \in P, c \in A[d], NEW e \in A[c] PROVE e \in A[d]
  <2>1. e \in P
    BY <1>5
  <2>2. /\ place[c] \in Int /\ place[d] \in Int /\ place[e] \in Int
        /\ Rank[TopicOf[c]] \in Int /\ Rank[TopicOf[d]] \in Int /\ Rank[TopicOf[e]] \in Int
    BY <1>1, <1>2, <2>1
  <2>3. /\ place[c] < place[d] \/ (place[c] = place[d] /\ Rank[TopicOf[c]] < Rank[TopicOf[d]])
        /\ place[e] < place[c] \/ (place[e] = place[c] /\ Rank[TopicOf[e]] < Rank[TopicOf[c]])
    BY <1>3, <1>8, <2>1
  <2> QED
    BY <1>3, <2>1, <2>2, <2>3
<1> QED
  BY <1>5, <1>6, <1>7, <1>8 DEF Before, A

\* What the round-robin gives for a sample: as many chunks as are asked for and
\* there, each once, and a chunk is among them if it comes before one that is.
LEMMA BalancedFacts ==
    ASSUME NEW P \in SUBSET Chunk, IsFiniteSet(P), NEW place \in Shuffles(P), NEW n \in Nat,
           NEW s, s = Balanced(n, place)
    PROVE  LET m == IF n < Cardinality(P) THEN n ELSE Cardinality(P)
           IN  /\ m \in Nat /\ DOMAIN s = 1 .. m /\ Len(s) = m
               /\ \A i \in 1 .. m : s[i] \in P
               /\ \A i, j \in 1 .. m : s[i] = s[j] => i = j
               /\ \A c \in P : Cardinality(Ahead(c, place)) < n => \E i \in 1 .. m : s[i] = c
               /\ \A i \in 1 .. m : Cardinality(Ahead(s[i], place)) < n
<1> DEFINE N == Cardinality(P)
           m == IF n < N THEN n ELSE N
           at == [c \in P |-> Cardinality(Ahead(c, place))]
           chosen == {c \in P : at[c] < n}
<1>1. Before(P, [c \in P |-> Ahead(c, place)])
  BY AheadOrder
<1>2. /\ N \in Nat /\ \A c \in P : at[c] \in 0 .. N - 1
      /\ \A c, d \in P : at[c] = at[d] => c = d
      /\ \A i \in 0 .. N - 1 : \E c \in P : at[c] = i
  <2> DEFINE A == [c \in P |-> Ahead(c, place)]
  <2>1. \A c \in P : at[c] = Cardinality(A[c])
    OBVIOUS
  <2> HIDE DEF A, at
  <2>2. Before(P, A)
    BY <1>1 DEF A
  <2> QED
    BY <2>1, <2>2, Positions
<1>3. m \in Nat /\ m <= N /\ m <= n
  BY <1>2
<1>4. DOMAIN place = P
  BY DEF Shuffles
<1> DEFINE taken == {c \in DOMAIN place : Cardinality(Ahead(c, place)) < n}
<1>5. s = [i \in 1 .. Cardinality(taken) |-> CHOOSE c \in taken : Cardinality(Ahead(c, place)) = i - 1]
  BY DEF Balanced
<1>5a. taken = chosen /\ \A c \in P : at[c] = Cardinality(Ahead(c, place))
  BY <1>4
<1> HIDE DEF at, taken
<1>6. \A c \in chosen : at[c] \in 0 .. m - 1 /\ c \in P
  BY <1>2, <1>3
<1>7. \A i \in 0 .. m - 1 : \E c \in chosen : at[c] = i
  <2> SUFFICES ASSUME NEW i \in 0 .. m - 1 PROVE \E c \in chosen : at[c] = i
    OBVIOUS
  <2>1. i \in 0 .. N - 1 /\ i < n
    BY <1>2, <1>3
  <2> QED
    BY <1>2, <2>1
<1>8. Cardinality(chosen) = m
  <2>1. IsFiniteSet(chosen) /\ Cardinality(chosen) \in Nat
    <3>1. chosen \in SUBSET P
      OBVIOUS
    <3> QED
      BY <3>1, FS_Subset, FS_CardinalityType
  <2>2. IsFiniteSet(0 .. m - 1) /\ Cardinality(0 .. m - 1) = m
    <3>1. 0 \in Int /\ m - 1 \in Int
      BY <1>3
    <3>2. IsFiniteSet(0 .. m - 1) /\ Cardinality(0 .. m - 1) = IF 0 > m - 1 THEN 0 ELSE (m - 1) - 0 + 1
      BY <3>1, FS_Interval
    <3> HIDE DEF m
    <3> QED
      BY <1>3, <3>2
  <2>3. Cardinality(chosen) <= m
    <3> DEFINE f == [c \in chosen |-> at[c]]
               Z == 0 .. m - 1
    <3>1. f \in [chosen -> Z] /\ \A c, d \in chosen : f[c] = f[d] => c = d
      BY <1>2, <1>6
    <3>2. IsFiniteSet(Z) /\ Cardinality(Z) = m
      BY <2>2
    <3> HIDE DEF f, chosen, Z
    <3> QED
      BY <2>1, <3>1, <3>2, NoMore
  <2>4. m <= Cardinality(chosen)
    <3> DEFINE Z == 0 .. m - 1
               g == [i \in Z |-> CHOOSE c \in chosen : at[c] = i]
    <3>1. \A i \in Z : g[i] \in chosen /\ at[g[i]] = i
      BY <1>7
    <3>2. g \in [Z -> chosen] /\ \A i, j \in Z : g[i] = g[j] => i = j
      BY <3>1
    <3>3. IsFiniteSet(Z) /\ Cardinality(Z) = m
      BY <2>2
    <3> HIDE DEF g, chosen, Z
    <3> QED
      BY <2>1, <3>2, <3>3, NoMore
  <2> HIDE DEF chosen, m
  <2> QED
    BY <1>3, <2>1, <2>3, <2>4
<1>9. ASSUME NEW i \in 1 .. m PROVE s[i] \in chosen /\ at[s[i]] = i - 1
  <2>1. i - 1 \in 0 .. m - 1
    BY <1>3
  <2>2. \E c \in taken : Cardinality(Ahead(c, place)) = i - 1
    BY <1>7, <1>5a, <2>1
  <2>3. s[i] = CHOOSE c \in taken : Cardinality(Ahead(c, place)) = i - 1
    BY <1>5, <1>8, <1>5a
  <2> HIDE DEF m
  <2> QED
    BY <1>5a, <2>2, <2>3
<1>10. DOMAIN s = 1 .. m /\ Len(s) = m
  <2>1. s = [i \in 1 .. m |-> s[i]]
    BY <1>5, <1>8, <1>5a
  <2> HIDE DEF m
  <2> QED
    BY <1>3, <2>1
<1>11. \A i, j \in 1 .. m : s[i] = s[j] => i = j
  <2> SUFFICES ASSUME NEW i \in 1 .. m, NEW j \in 1 .. m, s[i] = s[j] PROVE i = j
    OBVIOUS
  <2>1. i - 1 = j - 1
    BY <1>9
  <2> HIDE DEF m
  <2> QED
    BY <1>3, <2>1
<1>12. \A c \in P : at[c] < n => \E i \in 1 .. m : s[i] = c
  <2> SUFFICES ASSUME NEW c \in P, at[c] < n PROVE \E i \in 1 .. m : s[i] = c
    OBVIOUS
  <2>1. c \in chosen /\ at[c] \in 0 .. m - 1
    BY <1>6
  <2>2. at[c] + 1 \in 1 .. m /\ (at[c] + 1) - 1 = at[c]
    BY <1>3, <2>1
  <2>3. at[s[at[c] + 1]] = at[c] /\ s[at[c] + 1] \in P
    BY <1>9, <2>2
  <2>4. s[at[c] + 1] = c
    BY <1>2, <2>3
  <2> QED
    BY <2>2, <2>4
<1>13. \A i \in 1 .. m : s[i] \in P /\ at[s[i]] < n
  BY <1>9
<1> QED
  BY <1>3, <1>10, <1>11, <1>12, <1>13, <1>5a

TakenOf(s, t) == {i \in DOMAIN s : TopicOf[s[i]] = t}

\* A topic that has a chunk left over is at most one turn behind any other.
LEMMA TurnsFair ==
    ASSUME NEW P \in SUBSET Chunk, IsFiniteSet(P), NEW place \in Shuffles(P), NEW n \in Nat,
           NEW s, s = Balanced(n, place), NEW c \in P, \A i \in DOMAIN s : s[i] # c, NEW t
    PROVE  Cardinality(TakenOf(s, t)) <= Cardinality(TakenOf(s, TopicOf[c])) + 1
<1> DEFINE m == IF n < Cardinality(P) THEN n ELSE Cardinality(P)
           A == [d \in P |-> Ahead(d, place)]
           K == Cardinality(TakenOf(s, t))
           L == Cardinality(TakenOf(s, TopicOf[c]))
           B == Bucket(P, TopicOf[c])
<1>1. /\ m \in Nat /\ DOMAIN s = 1 .. m
      /\ \A i \in 1 .. m : s[i] \in P /\ Cardinality(A[s[i]]) < n
      /\ \A i, j \in 1 .. m : s[i] = s[j] => i = j
      /\ \A d \in P : Cardinality(A[d]) < n => \E i \in 1 .. m : s[i] = d
  BY BalancedFacts
<1>2. Before(P, A)
  BY AheadOrder
<1>3. /\ \A d \in P : Cardinality(A[d]) \in Int
      /\ \A d, e \in P : d \in A[e] => Cardinality(A[d]) < Cardinality(A[e])
  <2> HIDE DEF A
  <2>1. /\ Cardinality(P) \in Nat
        /\ \A d \in P : Cardinality(A[d]) \in 0 .. Cardinality(P) - 1
        /\ \A d, e \in P : d \in A[e] => Cardinality(A[d]) < Cardinality(A[e])
    BY <1>2, Positions
  <2> QED
    BY <2>1
<1>4. DOMAIN place = P /\ \A d \in P : place[d] \in Int /\ 0 < place[d]
  <2>1. place \in [P -> 1 .. Cardinality(P)]
    BY DEF Shuffles
  <2> QED
    BY <2>1
<1>5. \A d, e \in P : d \in A[e] <=>
          \/ place[d] < place[e]
          \/ place[d] = place[e] /\ Rank[TopicOf[d]] < Rank[TopicOf[e]]
  BY <1>4 DEF Ahead
<1> HIDE DEF A, m
<1>6. ASSUME NEW u PROVE IsFiniteSet(TakenOf(s, u)) /\ Cardinality(TakenOf(s, u)) \in Nat
  <2>1. IsFiniteSet(1 .. m)
    <3>1. 1 \in Int /\ m \in Int
      BY <1>1
    <3> QED
      BY <3>1, FS_Interval
  <2>2. TakenOf(s, u) \in SUBSET (1 .. m)
    BY <1>1 DEF TakenOf
  <2> QED
    BY <2>1, <2>2, FS_Subset, FS_CardinalityType
<1>7. K \in Nat /\ L \in Nat
  BY <1>6
<1> SUFFICES ASSUME L + 1 < K PROVE FALSE
  BY <1>7
\* One chunk of t has been taken in turn K or later.
<1>8. \E i \in TakenOf(s, t) : K <= place[s[i]]
  <2> SUFFICES ASSUME \A i \in TakenOf(s, t) : ~(K <= place[s[i]]) PROVE FALSE
    OBVIOUS
  <2> DEFINE f == [i \in TakenOf(s, t) |-> place[s[i]]]
             Z == 1 .. K - 1
  <2>1. \A i \in TakenOf(s, t) : i \in 1 .. m /\ s[i] \in P /\ TopicOf[s[i]] = t
    BY <1>1 DEF TakenOf
  <2>2. \A i \in TakenOf(s, t) : f[i] \in Z
    <3> SUFFICES ASSUME NEW i \in TakenOf(s, t) PROVE place[s[i]] \in 1 .. K - 1
      OBVIOUS
    <3>1. place[s[i]] \in Int /\ 0 < place[s[i]] /\ ~(K <= place[s[i]])
      BY <1>4, <2>1
    <3> HIDE DEF K
    <3> QED
      BY <1>7, <3>1
  <2>3. \A i, j \in TakenOf(s, t) : f[i] = f[j] => i = j
    <3> SUFFICES ASSUME NEW i \in TakenOf(s, t), NEW j \in TakenOf(s, t), place[s[i]] = place[s[j]] PROVE i = j
      OBVIOUS
    <3>1. s[i] \in P /\ s[j] \in P /\ s[j] \in Bucket(P, TopicOf[s[i]])
      BY <2>1 DEF Bucket
    <3>2. s[j] = s[i]
      BY <3>1, BucketPlaces
    <3> QED
      BY <1>1, <2>1, <3>2
  <2>4. IsFiniteSet(Z) /\ Cardinality(Z) = K - 1
    <3>1. 1 \in Int /\ K - 1 \in Int
      BY <1>7
    <3>2. IsFiniteSet(1 .. K - 1) /\ Cardinality(1 .. K - 1) = IF 1 > K - 1 THEN 0 ELSE (K - 1) - 1 + 1
      BY <3>1, FS_Interval
    <3> HIDE DEF K, L
    <3> QED
      BY <1>7, <3>2
  <2>5. f \in [TakenOf(s, t) -> Z]
    BY <2>2
  <2> HIDE DEF f, Z
  <2>6. Cardinality(TakenOf(s, t)) <= Cardinality(Z)
    BY <1>6, <2>3, <2>4, <2>5, NoMore
  <2>7. K <= K - 1
    BY <2>4, <2>6
  <2> HIDE DEF K
  <2> QED
    BY <1>7, <2>7
<1>9. PICK i \in TakenOf(s, t) : K <= place[s[i]]
  BY <1>8
<1> DEFINE e == s[i]
<1>10. e \in P /\ Cardinality(A[e]) < n
  BY <1>1 DEF TakenOf
<1>11. e \in A[c]
  <2>1. ~(Cardinality(A[c]) < n)
    BY <1>1
  <2>2. c \notin A[e]
    <3> HIDE DEF e
    <3> QED
      BY <1>3, <1>10, <2>1
  <2>3. e # c
    BY <1>10, <2>1
  <2> HIDE DEF e
  <2> QED
    BY <1>2, <1>10, <2>2, <2>3 DEF Before
<1>12. K <= place[c]
  <2>1. place[e] \in Int /\ place[c] \in Int /\ place[e] <= place[c]
    BY <1>4, <1>5, <1>10, <1>11
  <2> HIDE DEF K
  <2> QED
    BY <1>7, <1>9, <2>1
\* So has one of c's topic in each turn before.
<1>13. ASSUME NEW x \in 1 .. K - 1
       PROVE  \E j \in TakenOf(s, TopicOf[c]) : place[s[j]] = x
  <2>1. x \in 1 .. Cardinality(B)
    <3>1. Cardinality(B) \in Nat /\ place[c] \in 1 .. Cardinality(B)
      BY BucketPlaces
    <3> DEFINE b == Cardinality(B)
    <3> HIDE DEF K, b
    <3> QED
      BY <1>7, <1>12, <3>1 DEF b
  <2>2. PICK d \in B : place[d] = x
    BY <2>1, BucketPlaces
  <2>3. d \in P /\ TopicOf[d] = TopicOf[c]
    BY DEF Bucket
  <2>4. place[d] < place[e]
    <3>1. place[e] \in Int
      BY <1>4, <1>10
    <3> HIDE DEF K
    <3> QED
      BY <1>7, <1>9, <2>2, <3>1
  <2>5. Cardinality(A[d]) < n
    <3>1. d \in A[e]
      BY <1>5, <1>10, <2>3, <2>4
    <3>2. Cardinality(A[d]) < Cardinality(A[e]) /\ Cardinality(A[d]) \in Int /\ Cardinality(A[e]) \in Int
      BY <1>3, <1>10, <2>3, <3>1
    <3> QED
      BY <1>10, <3>2
  <2>6. PICK j \in 1 .. m : s[j] = d
    BY <1>1, <2>3, <2>5
  <2>7. j \in TakenOf(s, TopicOf[c])
    BY <1>1, <2>3, <2>6 DEF TakenOf
  <2> QED
    BY <2>2, <2>6, <2>7
<1>14. K - 1 <= L
  <2> DEFINE Z == 1 .. K - 1
             T == TakenOf(s, TopicOf[c])
             h == [x \in Z |-> CHOOSE j \in T : place[s[j]] = x]
  <2>1. \A x \in Z : h[x] \in T /\ place[s[h[x]]] = x
    <3> HIDE DEF T
    <3> QED
      BY <1>13 DEF T
  <2>2. h \in [Z -> T] /\ \A x, y \in Z : h[x] = h[y] => x = y
    BY <2>1
  <2>3. IsFiniteSet(Z) /\ Cardinality(Z) = K - 1
    <3>1. 1 \in Int /\ K - 1 \in Int
      BY <1>7
    <3>2. IsFiniteSet(1 .. K - 1) /\ Cardinality(1 .. K - 1) = IF 1 > K - 1 THEN 0 ELSE (K - 1) - 1 + 1
      BY <3>1, FS_Interval
    <3> HIDE DEF K, L
    <3> QED
      BY <1>7, <3>2
  <2>4. IsFiniteSet(T)
    BY <1>6
  <2> HIDE DEF h, Z, T
  <2>5. Cardinality(Z) <= Cardinality(T)
    BY <2>2, <2>3, <2>4, NoMore
  <2> QED
    BY <2>3, <2>5 DEF T
<1> HIDE DEF K, L
<1> QED
  BY <1>7, <1>14

LEMMA LesserOf ==
    ASSUME NEW a \in Nat, NEW b \in Nat
    PROVE  Min({a, b}) = IF a < b THEN a ELSE b
<1> DEFINE l == IF a < b THEN a ELSE b
<1>1. l \in {a, b} /\ \A y \in {a, b} : l <= y
  OBVIOUS
<1>2. \A x \in {a, b} : (\A y \in {a, b} : x <= y) => x = l
  OBVIOUS
<1> HIDE DEF l
<1> QED
  BY <1>1, <1>2 DEF Min

\* The picks are chunks of the sample.
ShareInv == pool \in SUBSET Chunk /\ FairShare

LEMMA PicksFair == StartExpansion => ShareInv'
<1> SUFFICES ASSUME StartExpansion PROVE ShareInv'
  OBVIOUS
<1> DEFINE N == Cardinality(pool')
           m == IF NTopic < N THEN NTopic ELSE N
<1>1. pool' \in SUBSET Chunk /\ IsFiniteSet(pool') /\ N \in Nat
  <2>1. pool' \in SUBSET Chunk
    BY DEF StartExpansion, Samples, kSubset
  <2> QED
    BY <2>1, ExpansionAssumption, FS_Subset, FS_CardinalityType
<1>2. PICK place \in Shuffles(pool') : picks' = Balanced(NTopic, place)
  BY DEF StartExpansion
<1>3. NTopic \in Nat
  BY ExpansionAssumption
<1>4. /\ m \in Nat /\ DOMAIN picks' = 1 .. m /\ Len(picks') = m
      /\ \A i \in 1 .. m : picks'[i] \in pool'
      /\ \A i, j \in 1 .. m : picks'[i] = picks'[j] => i = j
  BY <1>1, <1>2, <1>3, BalancedFacts
<1>5. Len(picks') = Min({NTopic, Cardinality(pool')})
  BY <1>1, <1>3, <1>4, LesserOf
<1>6. \A r \in Range(picks') : r \in pool'
  BY <1>4 DEF Range
<1>7. ASSUME NEW s \in Category, NEW t \in Category,
             Cardinality(PickedOf(s)') > Cardinality(PickedOf(t)') + 1
      PROVE  {c \in pool' : TopicOf[c] = t} \subseteq Range(picks')
  <2> SUFFICES ASSUME NEW c \in pool', TopicOf[c] = t, c \notin Range(picks') PROVE FALSE
    OBVIOUS
  <2>1. \A i \in DOMAIN picks' : picks'[i] # c
    BY DEF Range
  <2>2. Cardinality(TakenOf(picks', s)) <= Cardinality(TakenOf(picks', t)) + 1
    BY <1>1, <1>2, <1>3, <2>1, TurnsFair
  <2>3. PickedOf(s)' = TakenOf(picks', s) /\ PickedOf(t)' = TakenOf(picks', t)
    BY DEF PickedOf, TakenOf
  <2>4. ASSUME NEW u PROVE Cardinality(TakenOf(picks', u)) \in Nat
    <3>1. IsFiniteSet(1 .. m)
      <4>1. 1 \in Int /\ m \in Int
        BY <1>4
      <4> HIDE DEF m
      <4> QED
        BY <4>1, FS_Interval
    <3>2. TakenOf(picks', u) \in SUBSET (1 .. m)
      BY <1>4 DEF TakenOf
    <3> QED
      BY <3>1, <3>2, FS_Subset, FS_CardinalityType
  <2>5. Cardinality(TakenOf(picks', s)) \in Nat /\ Cardinality(TakenOf(picks', t)) \in Nat
    BY <2>4
  <2> QED
    BY <1>7, <2>2, <2>3, <2>5
<1> HIDE DEF m, N
<1> QED
  BY <1>1, <1>4, <1>5, <1>6, <1>7 DEF ShareInv, FairShare

\* The topics share the questions fairly, whatever the sample and the shuffles
\* of _balanced_topic_chunks were: none is left more than one chunk behind
\* another unless the sample has no more of it.
THEOREM FairShareTheorem == ExpansionSpec => []FairShare
<1>1. ExpansionInit => ShareInv
  <2> SUFFICES ASSUME ExpansionInit PROVE ShareInv
    OBVIOUS
  <2>1. gen = "off" /\ pool = {} /\ picks \in Seq({}) /\ Len(picks) = 0
    BY DEF ExpansionInit
  <2>2. DOMAIN picks = {}
    BY <2>1
  <2>3. Range(picks) = {}
    BY <2>2 DEF Range
  <2>4. \A t : PickedOf(t) = {}
    BY <2>2 DEF PickedOf
  <2>5. Cardinality({}) = 0
    BY FS_EmptySet
  <2>6. \A s, t \in Category : ~(Cardinality(PickedOf(s)) > Cardinality(PickedOf(t)) + 1)
    BY <2>4, <2>5
  <2>7. gen # "drafting"
    BY <2>1
  <2> QED
    BY <2>1, <2>2, <2>3, <2>6, <2>7 DEF ShareInv, FairShare
<1>2. ShareInv /\ [Generate \/ Review]_allVars => ShareInv'
  <2> SUFFICES ASSUME ShareInv, [Generate \/ Review]_allVars PROVE ShareInv'
    OBVIOUS
  <2>1. ASSUME pool' = pool, picks' = picks, gen' = "drafting" => gen = "drafting" PROVE ShareInv'
    BY <2>1 DEF ShareInv, FairShare, PickedOf
  <2>2. CASE StartExpansion
    BY <2>2, PicksFair
  <2>3. CASE DraftDropped \/ (\E q \in Question : Draft(q))
    BY <2>1, <2>3 DEF DraftDropped, Draft
  <2>4. CASE BeginWrite \/ EndWrite \/ ExpansionFails
    <3>1. pool' = pool /\ picks' = picks /\ gen' # "drafting"
      BY <2>4 DEF BeginWrite, EndWrite, ExpansionFails
    <3> QED
      BY <2>1, <3>1
  <2>5. CASE UNCHANGED generator
    BY <2>1, <2>5 DEF generator
  <2> QED
    BY <2>2, <2>3, <2>4, <2>5 DEF Generate, Review, allVars
<1>3. ShareInv => FairShare
  BY DEF ShareInv
<1> QED
  BY <1>1, <1>2, <1>3, PTL DEF ExpansionSpec
=============================================================================

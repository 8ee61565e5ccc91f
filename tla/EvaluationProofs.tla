--------------------------- MODULE EvaluationProofs ---------------------------
(***************************************************************************)
(* Proofs about the evaluation commands that share a judge cache and a     *)
(* history file, for any number of processes, any golden set, any judge    *)
(* and any number of failures.                                             *)
(***************************************************************************)
EXTENDS SideProbes, FiniteSetTheorems, WellFoundedInduction, TLAPS

-----------------------------------------------------------------------------
\* What each process keeps is a function of the process

Kept ==
    /\ DOMAIN enabled = Process /\ DOMAIN model = Process /\ DOMAIN call = Process
    /\ DOMAIN stored = Process /\ DOMAIN repaid = Process
    /\ DOMAIN pc = Process /\ DOMAIN config = Process /\ DOMAIN results = Process
    /\ DOMAIN outcome = Process /\ DOMAIN scores = Process /\ DOMAIN table = Process
    /\ DOMAIN plan = Process /\ DOMAIN saved = Process /\ DOMAIN marks = Process
    /\ DOMAIN rates = Process /\ DOMAIN grade = Process

LEMMA KeptInit == Init => Kept
  BY DEF Init, AuditInit, EvalInit, JudgeInit, Kept

LEMMA KeptNext == Kept /\ [Next]_all => Kept'
<1> SUFFICES ASSUME Kept, [Next]_all PROVE Kept'
  OBVIOUS
<1> USE DEF Kept, judging, running, file, vars, auditing, all, Goto, Returned
<1>1. ASSUME NEW p \in Process, EvalStep(p) \/ Crash(p), UNCHANGED <<auditing, rates, grade>>
      PROVE  Kept'
  <2>1. CASE Start(p) \/ Load(p)
    BY <1>1, <2>1 DEF Start, Load, GiveUp, NextConfig
  <2>2. CASE Generate(p) \/ GenerateRaises(p)
    BY <1>1, <2>2 DEF Generate, GenerateRaises, GiveUp, NextConfig
  <2>3. CASE AskJudge(p) \/ SkipJudge(p)
    BY <1>1, <2>3 DEF AskJudge, SkipJudge, Ask
  <2>4. CASE JudgeReplies(p) \/ JudgeFails(p)
    BY <1>1, <2>4 DEF JudgeReplies, Replies, JudgeFails, JudgeRaises
  <2>5. CASE TakeScore(p) \/ JudgeRaised(p)
    BY <1>1, <2>5 DEF TakeScore, JudgeRaised, GiveUp, NextConfig
  <2>6. CASE EndCase(p) \/ FinishUnrecorded(p)
    BY <1>1, <2>6 DEF EndCase, FinishUnrecorded
  <2>7. CASE FinishRun(p) \/ RecordFails(p) \/ Crash(p)
    BY <1>1, <2>7 DEF FinishRun, RecordFails, Crash, GiveUp, NextConfig
  <2> QED
    BY <1>1, <2>1, <2>2, <2>3, <2>4, <2>5, <2>6, <2>7 DEF EvalStep
<1>2. ASSUME NEW p \in Process, AuditTask(p), UNCHANGED <<rates, grade>> PROVE Kept'
  BY <1>2 DEF AuditTask, CacheOff, Restore, SetModel, AskForMark, TakeMark, AuditFails, PutBack,
              EndAudit, Done1, Ask
<1>3. ASSUME NEW p \in Process, ProbeStep(p) PROVE Kept'
  <2>1. CASE StartProbe(p) \/ MakePlan(p) \/ ProbeRaises(p) \/ Report(p)
    BY <2>1 DEF StartProbe, MakePlan, ProbeRaises, Report, EndAudit, PutBack
  <2>2. CASE GenerateCited(p) \/ GenerateNoisy(p)
    BY <2>2 DEF GenerateCited, GenerateNoisy, Expand
  <2>3. CASE Abstain(p) \/ Poison(p) \/ PoisonFacts(p)
    BY <2>3 DEF Abstain, Poison, PoisonFacts, Rated, Done1
  <2> QED
    BY <1>3, <2>1, <2>2, <2>3 DEF ProbeStep
<1>4. CASE UNCHANGED all
  BY <1>4
<1> QED
  BY <1>1, <1>2, <1>3, <1>4 DEF Next, Step, Finished

-----------------------------------------------------------------------------
\* Grades

\* What holds of zero, and of the successor of each number it holds of, holds of
\* all: induction, over a set of numbers.
LEMMA Induction ==
    ASSUME NEW S, 0 \in S, \A n \in Nat : n \in S => n + 1 \in S
    PROVE  Nat \subseteq S
<1> DEFINE Less == {ss \in Nat \X Nat : ss[1] < ss[2]}
           Rest == Nat \ S
<1>1. IsWellFoundedOn(Less, Nat)
  BY NatLessThanWellFounded DEF OpToRel
<1> SUFFICES ASSUME Rest # {} PROVE FALSE
  OBVIOUS
<1>2. PICK x \in Rest : \A y \in Rest : <<y, x>> \notin Less
  <2>1. Rest \subseteq Nat
    OBVIOUS
  <2> HIDE DEF Less, Rest
  <2> QED
    BY <1>1, <2>1, WFMin
<1>3. x \in Nat /\ x # 0 /\ x - 1 \in Nat
  OBVIOUS
<1>4. x - 1 \notin S
  BY <1>3
<1>5. <<x - 1, x>> \in Less
  BY <1>3
<1> QED
  BY <1>2, <1>3, <1>4, <1>5

Some(s) == CHOOSE p \in s : TRUE

\* The equation of the function that SumFunction takes its value from.
SumOver(D, f, g) == [s \in D |-> IF s = {} THEN 0 ELSE f[Some(s)] + g[s \ {Some(s)}]]

\* A set without one of its elements has one less.
LEMMA WithoutOne ==
    ASSUME NEW s, IsFiniteSet(s), s # {}
    PROVE  /\ Some(s) \in s
           /\ \A p \in s : /\ IsFiniteSet(s \ {p}) /\ Cardinality(s) \in Nat \ {0}
                           /\ Cardinality(s \ {p}) = Cardinality(s) - 1
<1>1. Some(s) \in s
  BY DEF Some
<1>2. ASSUME NEW p \in s
      PROVE  /\ IsFiniteSet(s \ {p}) /\ Cardinality(s) \in Nat \ {0}
             /\ Cardinality(s \ {p}) = Cardinality(s) - 1
  BY FS_RemoveElement, FS_CardinalityType, FS_EmptySet
<1> QED
  BY <1>1, <1>2

\* The function exists: it is built up from the empty set.
LEMMA SumExists ==
    ASSUME NEW W, IsFiniteSet(W), NEW f
    PROVE  \E g : g = SumOver(SUBSET W, f, g)
<1> DEFINE Small(m) == {s \in SUBSET W : Cardinality(s) <= m}
           S == {m \in Nat : \E g : g = SumOver(Small(m), f, g)}
<1>1. \A s \in SUBSET W : IsFiniteSet(s) /\ Cardinality(s) \in Nat
  BY FS_Subset, FS_CardinalityType
<1>2. 0 \in S
  <2>1. Small(0) = {{}}
    <3>1. \A s \in SUBSET W : Cardinality(s) <= 0 <=> s = {}
      BY <1>1, FS_EmptySet
    <3> QED
      BY <3>1
  <2> HIDE DEF Small
  <2> DEFINE g == [s \in Small(0) |-> 0]
  <2>2. g = SumOver(Small(0), f, g)
    BY <2>1 DEF SumOver
  <2> QED
    BY <2>2
<1>3. ASSUME NEW m \in Nat, m \in S PROVE m + 1 \in S
  <2>1. PICK g : g = SumOver(Small(m), f, g)
    BY <1>3
  <2> DEFINE h == SumOver(Small(m + 1), f, g)
  <2>2. ASSUME NEW s \in Small(m + 1), s # {}
        PROVE  s \ {Some(s)} \in Small(m) /\ s \ {Some(s)} \in Small(m + 1)
    <3>1. Cardinality(s \ {Some(s)}) = Cardinality(s) - 1 /\ Cardinality(s) <= m + 1
      BY <1>1, <2>2, WithoutOne
    <3>2. Cardinality(s \ {Some(s)}) \in Nat /\ Cardinality(s) \in Nat
      BY <1>1
    <3>3. Cardinality(s \ {Some(s)}) <= m /\ Cardinality(s \ {Some(s)}) <= m + 1
      BY ONLY <3>1, <3>2, <1>3
    <3> QED
      BY <3>3
  <2>3. \A s \in Small(m) : s \in Small(m + 1)
    BY <1>1
  <2> HIDE DEF Small
  <2>4. \A s \in Small(m) : g[s] = IF s = {} THEN 0 ELSE f[Some(s)] + g[s \ {Some(s)}]
    BY <2>1 DEF SumOver
  <2>5. \A s \in Small(m + 1) : h[s] = IF s = {} THEN 0 ELSE f[Some(s)] + g[s \ {Some(s)}]
    BY DEF SumOver
  <2>6. \A s \in Small(m) : h[s] = g[s]
    BY <2>3, <2>4, <2>5
  <2>7. h = SumOver(Small(m + 1), f, h)
    <3> SUFFICES ASSUME NEW s \in Small(m + 1)
                 PROVE  (IF s = {} THEN 0 ELSE f[Some(s)] + g[s \ {Some(s)}]) =
                            (IF s = {} THEN 0 ELSE f[Some(s)] + h[s \ {Some(s)}])
      BY DEF SumOver
    <3> HIDE DEF h
    <3> QED
      BY <2>2, <2>6
  <2> QED
    BY <2>7
<1>4. Cardinality(W) \in S
  <2>1. Cardinality(W) \in Nat
    BY FS_CardinalityType
  <2> HIDE DEF S
  <2> QED
    BY <1>2, <1>3, <2>1, Induction
<1>5. Small(Cardinality(W)) = SUBSET W
  <2>1. \A s \in SUBSET W : Cardinality(s) <= Cardinality(W)
    BY FS_Subset
  <2> QED
    BY <2>1
<1> HIDE DEF Small
<1> QED
  BY <1>4, <1>5

\* A sum of points, and a sum of points with a zero among them.
LEMMA SumBounded ==
    ASSUME NEW W, IsFiniteSet(W), NEW f, \A p \in W : f[p] \in 0 .. 2,
           NEW g, g = SumOver(SUBSET W, f, g)
    PROVE  /\ g[W] \in Nat
           /\ (\E p \in W : f[p] = 0) => g[W] <= 2 * Cardinality(W) - 2
<1> DEFINE Bounded(s) == /\ g[s] \in Nat /\ g[s] <= 2 * Cardinality(s)
                         /\ (\E p \in s : f[p] = 0) => g[s] <= 2 * Cardinality(s) - 2
           S == {m \in Nat : \A s \in SUBSET W : Cardinality(s) <= m => Bounded(s)}
<1>1. \A s \in SUBSET W : IsFiniteSet(s) /\ Cardinality(s) \in Nat
  BY FS_Subset, FS_CardinalityType
<1>2. \A s \in SUBSET W : g[s] = IF s = {} THEN 0 ELSE f[Some(s)] + g[s \ {Some(s)}]
  BY DEF SumOver
<1>3. Bounded({})
  <2>1. g[{}] = 0 /\ Cardinality({}) = 0
    BY <1>2, FS_EmptySet
  <2> QED
    BY <2>1
<1>4. 0 \in S
  <2>1. \A s \in SUBSET W : Cardinality(s) <= 0 => s = {}
    BY <1>1, FS_EmptySet
  <2> HIDE DEF Bounded
  <2> QED
    BY <1>3, <2>1
<1>5. ASSUME NEW m \in Nat, m \in S PROVE m + 1 \in S
  <2> SUFFICES ASSUME NEW s \in SUBSET W, Cardinality(s) <= m + 1, s # {} PROVE Bounded(s)
    <3>1. \A s \in SUBSET W : s = {} => Bounded(s)
      BY <1>3
    <3> HIDE DEF Bounded
    <3> QED
      BY <3>1
  <2> DEFINE q == Some(s)
             rest == s \ {q}
  <2>1. q \in s /\ Cardinality(rest) = Cardinality(s) - 1
    BY <1>1, WithoutOne
  <2>2. Cardinality(s) \in Nat /\ Cardinality(rest) <= m /\ rest \in SUBSET W
    BY <1>1, <2>1
  <2>3. Bounded(rest)
    BY <1>5, <2>2
  <2>4. g[s] = f[q] + g[rest] /\ f[q] \in 0 .. 2
    BY <1>2, <2>1
  <2>5. (\E p \in s : f[p] = 0) => f[q] = 0 \/ \E p \in rest : f[p] = 0
    BY <2>1
  <2> HIDE DEF q, rest
  <2> QED
    BY <2>1, <2>2, <2>3, <2>4, <2>5
<1>6. Cardinality(W) \in S
  <2>1. Cardinality(W) \in Nat
    BY FS_CardinalityType
  <2> HIDE DEF S
  <2> QED
    BY <1>4, <1>5, <2>1, Induction
<1>7. Bounded(W)
  <2>1. Cardinality(W) <= Cardinality(W)
    BY <1>1
  <2> HIDE DEF Bounded
  <2> QED
    BY <1>6, <2>1
<1> QED
  BY <1>7

\* A report whose points include a zero is not graded A.
LEMMA GradeNeedsAll ==
    ASSUME NEW points, NEW n \in {6, 8}, DOMAIN points = 1 .. n, Len(points) = n,
           points # << >>,
           \A k \in 1 .. n : points[k] \in 0 .. 2, Grade(points) = "A"
    PROVE  \A k \in DOMAIN points : points[k] > 0
<1> SUFFICES ASSUME NEW k \in 1 .. n, points[k] = 0 PROVE FALSE
  OBVIOUS
<1> DEFINE W == 1 .. n
           h == CHOOSE g : g = SumOver(SUBSET W, points, g)
<1>1. IsFiniteSet(W) /\ Cardinality(W) = n
  <2>1. n \in Nat /\ n \in Int /\ 1 \in Int
    OBVIOUS
  <2> QED
    BY <2>1, FS_Interval
<1>2. h = SumOver(SUBSET W, points, h)
  <2> HIDE DEF W
  <2> QED
    BY <1>1, SumExists
<1>3. SumFunction(points) = h[W]
  <2>1. DOMAIN points = W
    OBVIOUS
  <2> HIDE DEF W
  <2> QED
    BY <2>1 DEF SumFunction, SumFunctionOnSet, FoldFunctionOnSet, MapThenFoldSet, SumOver, Some
<1> DEFINE total == SumFunction(points)
<1>4. total \in Nat /\ total <= 2 * n - 2
  <2> HIDE DEF h
  <2>1. \A p \in W : points[p] \in 0 .. 2
    OBVIOUS
  <2>2. \E p \in W : points[p] = 0
    OBVIOUS
  <2> HIDE DEF W
  <2> QED
    BY <1>1, <1>2, <1>3, <2>1, <2>2, SumBounded
<1>5. 100 * total >= 90 * (2 * n)
  <2>1. "A" # "B" /\ "A" # "C" /\ "A" # "D"
    OBVIOUS
  <2> QED
    BY <2>1 DEF Grade
<1> HIDE DEF total
<1> QED
  BY <1>4, <1>5

\* Each dimension is worth two points at most.
LEMMA PointsWorth ==
    ASSUME NEW p
    PROVE  \E n \in {6, 8} : /\ DOMAIN Points(p) = 1 .. n /\ Len(Points(p)) = n
                             /\ \A k \in 1 .. n : Points(p)[k] \in 0 .. 2
<1>1. \A ratio, strong, watch : Verdict(ratio, strong, watch) \in 0 .. 2
  BY DEF Verdict
<1>2. KappaVerdict(p) \in 0 .. 2
  BY DEF KappaVerdict
<1> DEFINE a == MeanVerdict(p, "faithfulness", 90, 80)
           b == MeanVerdict(p, "correctness", 85, 75)
           c == Verdict(rates[p]["abstention"], 95, 80)
           d == Verdict(Accuracy(p), 85, 70)
           e == Verdict(rates[p]["injection"], 90, 70)
           f == Verdict(rates[p]["counterfactual"], 90, 70)
           x == KappaVerdict(p)
           y == FlipVerdict(p)
<1>3. /\ a \in 0 .. 2 /\ b \in 0 .. 2 /\ c \in 0 .. 2 /\ d \in 0 .. 2 /\ e \in 0 .. 2
      /\ f \in 0 .. 2 /\ y \in 0 .. 2
  BY <1>1 DEF MeanVerdict, FlipVerdict
<1>4. Points(p) = <<a, b, c, d, e, f>> \o IF command[p].judge THEN <<x, y>> ELSE << >>
  BY DEF Points
<1> HIDE DEF a, b, c, d, e, f, x, y
<1>5. CASE command[p].judge
  <2> DEFINE s == <<a, b, c, d, e, f>>
             t == <<x, y>>
  <2>1. s \in Seq(0 .. 2) /\ Len(s) = 6
    BY <1>3
  <2>2. t \in Seq(0 .. 2) /\ Len(t) = 2
    BY <1>2, <1>3 DEF x
  <2>3. Points(p) = s \o t
    BY <1>4, <1>5
  <2> HIDE DEF s, t
  <2>4. s \o t \in Seq(0 .. 2) /\ Len(s \o t) = 8
    <3> DEFINE R == 0 .. 2
    <3> HIDE DEF R
    <3>1. s \in Seq(R) /\ t \in Seq(R)
      BY <2>1, <2>2 DEF R
    <3>2. s \o t \in Seq(R) /\ Len(s \o t) = Len(s) + Len(t)
      BY <3>1
    <3> QED
      BY <2>1, <2>2, <3>2 DEF R
  <2>5. \A k \in 1 .. 8 : (s \o t)[k] \in 0 .. 2
    BY <2>4
  <2>6. DOMAIN (s \o t) = 1 .. 8
    BY <2>4
  <2> QED
    BY <2>3, <2>4, <2>5, <2>6
<1>6. CASE ~command[p].judge
  <2>1. Points(p) = <<a, b, c, d, e, f>>
    BY <1>4, <1>6
  <2> QED
    BY <1>3, <2>1
<1> QED
  BY <1>5, <1>6

\* An audit graded "A - Trustworthy" has no dimension at risk, whatever was
\* measured: nine tenths of the points cannot be reached with a zero among six or
\* eight dimensions (evaluation/audit.py _grade).
THEOREM GradeTheorem == Spec => []GradeAMeansIt
<1>1. Init => GradeAMeansIt
  <2>1. "none" # "A"
    OBVIOUS
  <2> QED
    BY <2>1 DEF Init, GradeAMeansIt
<1>2. Kept /\ GradeAMeansIt /\ [Next]_all => GradeAMeansIt'
  <2> SUFFICES ASSUME Kept, GradeAMeansIt, [Next]_all PROVE GradeAMeansIt'
    OBVIOUS
  <2>1. CASE UNCHANGED grade
    BY <2>1 DEF GradeAMeansIt
  <2>2. ASSUME NEW p \in Process, Report(p) PROVE GradeAMeansIt'
    <3>1. CASE UNCHANGED grade
      BY <3>1 DEF GradeAMeansIt
    <3>2. ASSUME grade' = [grade EXCEPT ![p] = [points |-> Points(p), letter |-> Grade(Points(p))]]
          PROVE  GradeAMeansIt'
      <4> SUFFICES ASSUME NEW q \in Process, grade'[q].letter = "A"
                   PROVE  \A k \in DOMAIN grade'[q].points : grade'[q].points[k] > 0
        BY DEF GradeAMeansIt
      <4>1. CASE q # p
        BY <3>2, <4>1 DEF GradeAMeansIt, Kept
      <4>2. CASE q = p
        <5>1. grade'[q].points = Points(p) /\ grade'[q].letter = Grade(Points(p))
          BY <3>2, <4>2 DEF Kept
        <5>2. Points(p) # << >>
          BY PointsWorth
        <5> QED
          BY <5>1, <5>2, PointsWorth, GradeNeedsAll
      <4> QED
        BY <4>1, <4>2
    <3> QED
      BY <2>2, <3>1, <3>2 DEF Report
  <2>3. ASSUME NEW p \in Process, ProbeStep(p), ~Report(p) PROVE UNCHANGED grade
    BY <2>3 DEF ProbeStep, StartProbe, MakePlan, GenerateCited, GenerateNoisy, Expand, Abstain, Poison,
                PoisonFacts, Rated, ProbeRaises
  <2> QED
    BY <2>1, <2>2, <2>3 DEF Next, Step, Finished, all
<1> QED
  BY <1>1, <1>2, KeptInit, KeptNext, PTL DEF Spec

-----------------------------------------------------------------------------
\* What a process does to the others

\* Nothing of q's own changes.
Same(q) ==
    /\ enabled'[q] = enabled[q] /\ model'[q] = model[q] /\ call'[q] = call[q]
    /\ stored'[q] = stored[q] /\ repaid'[q] = repaid[q]
    /\ pc'[q] = pc[q] /\ config'[q] = config[q] /\ results'[q] = results[q]
    /\ outcome'[q] = outcome[q] /\ scores'[q] = scores[q] /\ table'[q] = table[q]
    /\ plan'[q] = plan[q] /\ saved'[q] = saved[q] /\ marks'[q] = marks[q]

\* Commands never change, what the judge said stays said, and no row is deleted.
Grows == command' = command /\ given \subseteq given' /\ DOMAIN rows \subseteq DOMAIN rows'

LEMMA PutGrows ==
    ASSUME NEW key, NEW reply, Put(key, reply)
    PROVE  /\ DOMAIN rows' = DOMAIN rows \cup {key} /\ rows'[key] = reply
           /\ \A other \in DOMAIN rows : other # key => rows'[other] = rows[other]
  BY DEF Put

LEMMA Others ==
    ASSUME Kept, NEW p \in Process, Step(p)
    PROVE  Grows /\ \A q \in Process : q # p => Same(q)
<1> USE DEF Kept, judging, running, file, vars, auditing, all, Goto, Returned, Same, Grows
<1>1. CASE (EvalStep(p) \/ Crash(p)) /\ UNCHANGED <<auditing, rates, grade>>
  <2>1. CASE Start(p) \/ Load(p)
    BY <1>1, <2>1 DEF Start, Load, GiveUp, NextConfig
  <2>2. CASE Generate(p) \/ GenerateRaises(p)
    BY <1>1, <2>2 DEF Generate, GenerateRaises, GiveUp, NextConfig
  <2>3. CASE AskJudge(p) \/ SkipJudge(p)
    BY <1>1, <2>3 DEF AskJudge, SkipJudge, Ask
  <2>4. CASE JudgeReplies(p)
    <3>1. DOMAIN rows \subseteq DOMAIN rows'
      BY <2>4, PutGrows DEF JudgeReplies, Replies
    <3> QED
      BY <1>1, <2>4, <3>1 DEF JudgeReplies, Replies
  <2>5. CASE JudgeFails(p) \/ TakeScore(p) \/ JudgeRaised(p)
    BY <1>1, <2>5 DEF TakeScore, JudgeRaised, GiveUp, NextConfig, JudgeFails, JudgeRaises
  <2>6. CASE EndCase(p) \/ FinishUnrecorded(p)
    BY <1>1, <2>6 DEF EndCase, FinishUnrecorded
  <2>7. CASE FinishRun(p) \/ RecordFails(p) \/ Crash(p)
    BY <1>1, <2>7 DEF FinishRun, RecordFails, Crash, GiveUp, NextConfig
  <2> QED
    BY <1>1, <2>1, <2>2, <2>3, <2>4, <2>5, <2>6, <2>7 DEF EvalStep
<1>2. CASE AuditTask(p) /\ UNCHANGED <<rates, grade>>
  BY <1>2 DEF AuditTask, CacheOff, Restore, SetModel, AskForMark, TakeMark, AuditFails, PutBack,
              EndAudit, Done1, Ask
<1>3. CASE ProbeStep(p)
  <2>1. CASE StartProbe(p) \/ MakePlan(p) \/ ProbeRaises(p) \/ Report(p)
    BY <2>1 DEF StartProbe, MakePlan, ProbeRaises, Report, EndAudit, PutBack
  <2>2. CASE GenerateCited(p) \/ GenerateNoisy(p)
    BY <2>2 DEF GenerateCited, GenerateNoisy, Expand
  <2>3. CASE Abstain(p) \/ Poison(p) \/ PoisonFacts(p)
    BY <2>3 DEF Abstain, Poison, PoisonFacts, Rated, Done1
  <2> QED
    BY <1>3, <2>1, <2>2, <2>3 DEF ProbeStep
<1> QED
  BY <1>1, <1>2, <1>3 DEF Step

-----------------------------------------------------------------------------
\* Sequences, and what the two recursions over them compute

Values(s) == {s[k] : k \in DOMAIN s}
IsSeq(s) == s \in Seq(Values(s))

LEMMA SeqFacts ==
    ASSUME NEW s, IsSeq(s)
    PROVE  DOMAIN s = 1 .. Len(s) /\ Len(s) \in Nat
  BY DEF IsSeq

LEMMA SomeSeq ==
    ASSUME NEW T, NEW s \in Seq(T)
    PROVE  IsSeq(s)
<1> DEFINE V == Values(s)
<1>1. DOMAIN s = 1 .. Len(s) /\ Len(s) \in Nat /\ s = [k \in 1 .. Len(s) |-> s[k]]
  OBVIOUS
<1>2. \A k \in 1 .. Len(s) : s[k] \in V
  BY <1>1 DEF Values
<1> HIDE DEF V
<1>3. s \in Seq(V)
  BY <1>1, <1>2
<1> QED
  BY <1>3 DEF IsSeq, V

LEMMA Listed ==
    ASSUME NEW s, NEW n \in Nat, s = [k \in 1 .. n |-> s[k]]
    PROVE  IsSeq(s) /\ Len(s) = n
<1> DEFINE T == Values(s)
<1>1. \A k \in 1 .. n : s[k] \in T
  BY DEF Values
<1> HIDE DEF T
<1>2. s \in Seq(T) /\ Len(s) = n
  BY <1>1
<1> QED
  BY <1>2 DEF IsSeq, T

LEMMA AppendFacts ==
    ASSUME NEW s, IsSeq(s), NEW x
    PROVE  /\ IsSeq(Append(s, x))
           /\ Len(Append(s, x)) = Len(s) + 1 /\ DOMAIN Append(s, x) = 1 .. Len(s) + 1
           /\ \A k \in 1 .. Len(s) : Append(s, x)[k] = s[k]
           /\ Append(s, x)[Len(s) + 1] = x
<1> DEFINE T == Values(s) \cup {x}
<1>1. s \in Seq(T) /\ x \in T
  BY DEF IsSeq
<1> HIDE DEF T
<1>2. /\ Append(s, x) \in Seq(T)
      /\ Len(Append(s, x)) = Len(s) + 1 /\ DOMAIN Append(s, x) = 1 .. Len(s) + 1
      /\ \A k \in 1 .. Len(s) : Append(s, x)[k] = s[k]
      /\ Append(s, x)[Len(s) + 1] = x
  BY <1>1
<1>3. IsSeq(Append(s, x))
  BY <1>2, SomeSeq
<1> QED
  BY <1>2, <1>3

LEMMA TailFacts ==
    ASSUME NEW s, IsSeq(s), s # << >>
    PROVE  /\ IsSeq(Tail(s)) /\ Len(s) \in Nat \ {0}
           /\ Len(Tail(s)) = Len(s) - 1 /\ DOMAIN Tail(s) = 1 .. Len(s) - 1
           /\ \A k \in 1 .. Len(s) - 1 : Tail(s)[k] = s[k + 1]
           /\ Head(s) = s[1]
<1> DEFINE T == Values(s)
<1>1. s \in Seq(T)
  BY DEF IsSeq
<1> HIDE DEF T
<1>2. /\ Tail(s) \in Seq(T) /\ Len(s) \in Nat \ {0}
      /\ Len(Tail(s)) = Len(s) - 1 /\ DOMAIN Tail(s) = 1 .. Len(s) - 1
      /\ \A k \in 1 .. Len(s) - 1 : Tail(s)[k] = s[k + 1]
      /\ Head(s) = s[1]
  BY <1>1
<1>3. IsSeq(Tail(s))
  BY <1>2, SomeSeq
<1> QED
  BY <1>2, <1>3

LEMMA ConcatFacts ==
    ASSUME NEW s, IsSeq(s), NEW t, IsSeq(t)
    PROVE  /\ IsSeq(s \o t)
           /\ Len(s \o t) = Len(s) + Len(t) /\ DOMAIN (s \o t) = 1 .. Len(s) + Len(t)
           /\ \A k \in 1 .. Len(s) : (s \o t)[k] = s[k]
           /\ \A k \in 1 .. Len(t) : (s \o t)[Len(s) + k] = t[k]
           /\ \A k \in 1 .. Len(s) + Len(t) : k > Len(s) => (s \o t)[k] = t[k - Len(s)]
<1> DEFINE T == Values(s) \cup Values(t)
<1>1. s \in Seq(T) /\ t \in Seq(T)
  BY DEF IsSeq
<1> HIDE DEF T
<1>2. /\ s \o t \in Seq(T)
      /\ Len(s \o t) = Len(s) + Len(t) /\ DOMAIN (s \o t) = 1 .. Len(s) + Len(t)
      /\ \A k \in 1 .. Len(s) : (s \o t)[k] = s[k]
      /\ \A k \in 1 .. Len(s) + Len(t) : k > Len(s) => (s \o t)[k] = t[k - Len(s)]
  BY <1>1
<1>3. ASSUME NEW k \in 1 .. Len(t) PROVE (s \o t)[Len(s) + k] = t[k]
  <2>1. Len(s) \in Nat /\ Len(t) \in Nat
    BY <1>1
  <2>2. Len(s) + k \in 1 .. Len(s) + Len(t) /\ Len(s) + k > Len(s) /\ (Len(s) + k) - Len(s) = k
    BY <2>1
  <2> QED
    BY <1>2, <2>2
<1>4. IsSeq(s \o t)
  BY <1>2, SomeSeq
<1> QED
  BY <1>2, <1>3, <1>4

Closed(G, N, T) == \A n \in 1 .. N : \A x \in T : G[n][x] \in T
Solves(f, G, N, a) == f[0] = a /\ \A n \in 1 .. N : f[n] = G[n][f[n - 1]]

\* A recursion over 0 .. N has a solution.
LEMMA Recursion ==
    ASSUME NEW T, NEW N \in Nat, NEW a \in T, NEW G, Closed(G, N, T)
    PROVE  \E f \in [0 .. N -> T] : Solves(f, G, N, a)
<1> USE DEF Closed, Solves
<1> DEFINE Upto(m) == \E f \in [0 .. m -> T] : f[0] = a /\ \A n \in 1 .. m : f[n] = G[n][f[n - 1]]
           S == {m \in Nat : m <= N => Upto(m)}
<1>1. 0 \in S
  <2> DEFINE f == [n \in 0 .. 0 |-> a]
  <2>1. f \in [0 .. 0 -> T] /\ f[0] = a /\ \A n \in 1 .. 0 : FALSE
    OBVIOUS
  <2> QED
    BY <2>1
<1>2. ASSUME NEW m \in Nat, m \in S PROVE m + 1 \in S
  <2> SUFFICES ASSUME m + 1 <= N PROVE Upto(m + 1)
    <3> HIDE DEF Upto
    <3> QED
      OBVIOUS
  <2>1. PICK f \in [0 .. m -> T] : f[0] = a /\ \A n \in 1 .. m : f[n] = G[n][f[n - 1]]
    BY <1>2
  <2> DEFINE x == G[m + 1][f[m]]
             h == [n \in 0 .. (m + 1) |-> IF n = m + 1 THEN x ELSE f[n]]
  <2>2. x \in T
    <3>1. m + 1 \in 1 .. N /\ f[m] \in T
      BY <2>1
    <3> QED
      BY <3>1
  <2> HIDE DEF x
  <2>3. h \in [0 .. (m + 1) -> T] /\ h[0] = a
    BY <2>1, <2>2
  <2>4. (\A n \in 0 .. m : h[n] = f[n]) /\ h[m + 1] = x
    OBVIOUS
  <2> HIDE DEF h
  <2>5. ASSUME NEW n \in 1 .. (m + 1) PROVE h[n] = G[n][h[n - 1]]
    <3>1. CASE n = m + 1
      <4>1. h[n - 1] = f[m] /\ h[n] = x
        BY <2>4, <3>1
      <4> QED
        BY <3>1, <4>1 DEF x
    <3>2. CASE n # m + 1
      <4>1. n \in 1 .. m /\ n \in 0 .. m /\ n - 1 \in 0 .. m
        BY <3>2
      <4> QED
        BY <2>1, <2>4, <4>1
    <3> QED
      BY <3>1, <3>2
  <2> QED
    BY <2>3, <2>5
<1> HIDE DEF Upto
<1>3. Nat \subseteq S
  <2> HIDE DEF S
  <2> QED
    BY <1>1, <1>2, Induction
<1>4. Upto(N)
  BY <1>3
<1> QED
  BY <1>4 DEF Upto

\* What has been taken of s after each of its elements.
LEMMA AmongSteps ==
    ASSUME NEW T, NEW s \in Seq(T), NEW S
    PROVE  \E f \in [0 .. Len(s) -> Seq(T)] :
              /\ f[0] = << >> /\ Among(s, S) = f[Len(s)]
              /\ \A n \in 1 .. Len(s) :
                    f[n] = IF s[n] \in S THEN Append(f[n - 1], s[n]) ELSE f[n - 1]
<1> DEFINE N == Len(s)
           Is(f) == [n \in 0 .. N |->
                        IF n = 0 THEN << >>
                        ELSE IF s[n] \in S THEN Append(f[n - 1], s[n]) ELSE f[n - 1]]
           G == [n \in 1 .. N |-> [x \in Seq(T) |-> IF s[n] \in S THEN Append(x, s[n]) ELSE x]]
           f == CHOOSE f : f = Is(f)
<1>1. N \in Nat /\ << >> \in Seq(T) /\ \A n \in 1 .. N : s[n] \in T
  OBVIOUS
<1>2. \A n \in 1 .. N : \A x \in Seq(T) : G[n][x] \in Seq(T)
  BY <1>1
<1>3. \E g \in [0 .. N -> Seq(T)] : g[0] = << >> /\ \A n \in 1 .. N : g[n] = G[n][g[n - 1]]
  <2> DEFINE Z == Seq(T)
  <2>1. << >> \in Z /\ Closed(G, N, Z)
    BY <1>1, <1>2 DEF Closed
  <2> HIDE DEF G, N, Z
  <2>2. \E g \in [0 .. N -> Z] : Solves(g, G, N, << >>)
    BY <1>1, <2>1, Recursion
  <2> QED
    BY <2>2 DEF Z, Solves
<1>4. PICK g \in [0 .. N -> Seq(T)] : g[0] = << >> /\ \A n \in 1 .. N : g[n] = G[n][g[n - 1]]
  BY <1>3
<1>5. g = Is(g)
  <2>1. \A n \in 1 .. N : g[n - 1] \in Seq(T)
    BY <1>1, <1>4
  <2>2. \A n \in 1 .. N : g[n] = IF s[n] \in S THEN Append(g[n - 1], s[n]) ELSE g[n - 1]
    BY <1>4, <2>1
  <2>3. \A n \in 0 .. N : n # 0 => n \in 1 .. N
    BY <1>1
  <2>4. \A n \in 0 .. N : g[n] = IF n = 0 THEN << >>
                                 ELSE IF s[n] \in S THEN Append(g[n - 1], s[n]) ELSE g[n - 1]
    BY <1>4, <2>2, <2>3
  <2> QED
    BY <1>4, <2>4
<1>6. f = Is(f)
  BY <1>5
<1>7. Among(s, S) = f[N]
  BY DEF Among
<1> HIDE DEF f
<1>8. f[0] = << >> /\ \A n \in 1 .. N : f[n] = IF s[n] \in S THEN Append(f[n - 1], s[n]) ELSE f[n - 1]
  <2>1. \A n \in 1 .. N : n \in 0 .. N /\ n # 0
    BY <1>1
  <2>2. 0 \in 0 .. N
    BY <1>1
  <2> QED
    BY <1>6, <2>1, <2>2
<1> DEFINE R == {m \in Nat : m <= N => f[m] \in Seq(T)}
<1>9. 0 \in R
  BY <1>1, <1>8
<1>10. ASSUME NEW m \in Nat, m \in R PROVE m + 1 \in R
  <2> SUFFICES ASSUME m + 1 <= N PROVE f[m + 1] \in Seq(T)
    OBVIOUS
  <2>1. m + 1 \in 1 .. N /\ (m + 1) - 1 = m /\ f[m] \in Seq(T)
    BY <1>1, <1>10
  <2>2. f[m + 1] = IF s[m + 1] \in S THEN Append(f[m], s[m + 1]) ELSE f[m]
    BY <1>8, <2>1
  <2>3. s[m + 1] \in T
    BY <1>1, <2>1
  <2> HIDE DEF N
  <2> QED
    BY <2>1, <2>2, <2>3
<1>11. Nat \subseteq R
  <2> HIDE DEF R
  <2> QED
    BY <1>9, <1>10, Induction
<1>12. f \in [0 .. N -> Seq(T)]
  <2>1. \A n \in 0 .. N : f[n] \in Seq(T)
    BY <1>1, <1>11
  <2>2. f = [n \in 0 .. N |-> f[n]]
    BY <1>6
  <2> QED
    BY <2>1, <2>2
<1> QED
  BY <1>7, <1>8, <1>12

LEMMA CasesSeq ==
    ASSUME NEW p
    PROVE  IsSeq(Cases(p)) /\ \A k \in DOMAIN Cases(p) : Cases(p)[k] \in DOMAIN Relevant
<1> DEFINE T == DOMAIN Relevant
<1>1. Order \in Seq(T)
  BY EvalAssumption
<1> HIDE DEF T
<1>2. Among(Order, command[p].wanted) \in Seq(T)
  <2> DEFINE S == command[p].wanted
  <2> HIDE DEF S
  <2>1. PICK f \in [0 .. Len(Order) -> Seq(T)] : Among(Order, S) = f[Len(Order)]
    BY <1>1, AmongSteps
  <2>2. Len(Order) \in 0 .. Len(Order)
    BY <1>1
  <2>3. Among(Order, S) \in Seq(T)
    BY <2>1, <2>2
  <2> QED
    BY <2>3 DEF S
<1>3. Cases(p) \in Seq(T)
  BY <1>1, <1>2 DEF Cases
<1> DEFINE s == Cases(p)
<1> HIDE DEF s
<1>4. IsSeq(s) /\ \A k \in DOMAIN s : s[k] \in T
  <2>1. IsSeq(s)
    BY <1>3, SomeSeq DEF s
  <2>2. \A k \in DOMAIN s : s[k] \in T
    BY <1>3 DEF s
  <2> QED
    BY <2>1, <2>2
<1> QED
  BY <1>4 DEF s, T

-----------------------------------------------------------------------------
\* Every score was given by the judge

Running == {"load", "generate", "judge", "record"}

\* What the call of p asks is what p is about to use the reply for.
CallInv(p) ==
    /\ call[p] = [state |-> call[p].state, key |-> call[p].key, keep |-> call[p].keep,
                  score |-> call[p].score, paid |-> call[p].paid]
    /\ call[p].state # "none" =>
          \/ /\ pc[p] = "judge" /\ Len(scores[p]) < Len(Metrics) /\ ~Unasked(Metric(p), outcome[p])
             /\ call[p].key = <<model[p], SubjectOf(Metric(p), This(p), outcome[p])>>
          \/ /\ Doing(p, "judge")
             /\ call[p].key = <<model[p], Next1(p).subject>>
    /\ call[p].state = "scored" => <<call[p].key[1], call[p].key[2], call[p].score>> \in given

\* A score is 0 where nothing is asked, and otherwise one that the model gave.
EarnedScore(m, metric, case, o, score) ==
    IF Unasked(metric, o) THEN score = 0 ELSE <<m, SubjectOf(metric, case, o), score>> \in given

\* The case being judged.
ScoresInv(p) ==
    /\ pc[p] \in Running => model[p] = command[p].model
    /\ pc[p] = "judge" =>
          /\ IsSeq(scores[p]) /\ Len(scores[p]) <= Len(Metrics)
          /\ \A k \in DOMAIN scores[p] :
                EarnedScore(model[p], Metrics[k], This(p), outcome[p], scores[p][k])

\* The cases judged, in order.
ResultsInv(p) ==
    /\ IsSeq(results[p])
    /\ \A k \in DOMAIN results[p] :
          results[p][k].case = Cases(p)[k] /\ Earned(command[p].model, results[p][k])
    /\ pc[p] \in {"generate", "judge"} => Len(results[p]) < Len(Cases(p))
    /\ pc[p] = "record" => Len(results[p]) = Len(Cases(p))

MarksInv(p) ==
    /\ IsSeq(marks[p]) 
    /\ \A k \in DOMAIN marks[p] : <<marks[p][k].model, marks[p][k].subject, marks[p][k].score>> \in given

\* What the processes share.
RowsInv == \A key \in DOMAIN rows : <<key[1], key[2], Parse(rows[key])>> \in given

EntryEarned(e) ==
    /\ [k \in DOMAIN e.results |-> e.results[k].case] = Cases(e.process)
    /\ \A k \in DOMAIN e.results : Earned(command[e.process].model, e.results[k])

LinesInv ==
    /\ IsSeq(lines)
    /\ \A k \in DOMAIN lines :
          /\ lines[k] = [entry |-> lines[k].entry, readable |-> lines[k].readable]
          /\ lines[k].readable => EntryEarned(lines[k].entry)

EarnedInv ==
    /\ Kept /\ RowsInv /\ LinesInv
    /\ \A p \in Process : CallInv(p) /\ ScoresInv(p) /\ ResultsInv(p) /\ MarksInv(p)

LEMMA NoElements ==
    ASSUME NEW s \in Seq({})
    PROVE  IsSeq(s) /\ DOMAIN s = {}
<1>1. IsSeq(s)
  BY SomeSeq
<1>2. DOMAIN s = {}
  OBVIOUS
<1> QED
  BY <1>1, <1>2

LEMMA EarnedInit == Init => EarnedInv
<1> SUFFICES ASSUME Init PROVE EarnedInv
  OBVIOUS
<1>1. Kept
  BY KeptInit
<1>2. RowsInv /\ LinesInv
  <2>1. rows \in Seq({}) /\ lines \in Seq({})
    BY DEF Init, AuditInit, EvalInit, JudgeInit
  <2>2. DOMAIN rows = {} /\ IsSeq(lines) /\ DOMAIN lines = {}
    BY <2>1, NoElements
  <2> QED
    BY <2>2 DEF RowsInv, LinesInv
<1>3. ASSUME NEW p \in Process PROVE CallInv(p) /\ ScoresInv(p) /\ ResultsInv(p) /\ MarksInv(p)
  <2>1. /\ call[p] = NoCall /\ pc[p] = "idle" /\ results[p] = << >> /\ marks[p] = << >>
        /\ results[p] \in Seq({}) /\ marks[p] \in Seq({})
    BY <1>3 DEF Init, AuditInit, EvalInit, JudgeInit
  <2>2. CallInv(p)
    BY <2>1 DEF CallInv, NoCall
  <2>3. ScoresInv(p)
    BY <2>1 DEF ScoresInv, Running
  <2>4. /\ IsSeq(results[p]) /\ DOMAIN results[p] = {}
        /\ IsSeq(marks[p]) /\ DOMAIN marks[p] = {}
    BY <2>1, NoElements
  <2>5. ResultsInv(p)
    BY <2>1, <2>4 DEF ResultsInv
  <2>6. MarksInv(p)
    BY <2>4 DEF MarksInv
  <2> QED
    BY <2>2, <2>3, <2>5, <2>6
<1> QED
  BY <1>1, <1>2, <1>3 DEF EarnedInv


LEMMA Grown ==
    ASSUME Grows
    PROVE  /\ \A p : Cases(p)' = Cases(p)
           /\ \A m, r : Earned(m, r) => Earned(m, r)'
           /\ \A m, metric, case, o, score :
                 EarnedScore(m, metric, case, o, score) => EarnedScore(m, metric, case, o, score)'
           /\ \A e : EntryEarned(e) => EntryEarned(e)'
<1>1. \A p : Cases(p)' = Cases(p)
  BY DEF Grows, Cases
<1>2. \A m, r : Earned(m, r) => Earned(m, r)'
  BY DEF Grows, Earned
<1>3. ASSUME NEW m, NEW metric, NEW case, NEW o, NEW score
      PROVE  EarnedScore(m, metric, case, o, score) => EarnedScore(m, metric, case, o, score)'
  BY DEF Grows, EarnedScore
<1>4. ASSUME NEW e, EntryEarned(e) PROVE EntryEarned(e)'
  <2>1. [k \in DOMAIN e.results |-> e.results[k].case] = Cases(e.process)'
    BY <1>1, <1>4 DEF EntryEarned
  <2>2. \A k \in DOMAIN e.results : Earned(command[e.process].model, e.results[k])'
    BY <1>2, <1>4 DEF EntryEarned, Grows
  <2> QED
    BY <2>1, <2>2 DEF EntryEarned, Grows
<1> QED
  BY <1>1, <1>2, <1>3, <1>4

\* What a step that leaves a part alone keeps of it.
LEMMA RowsKept ==
    ASSUME RowsInv, Grows, rows' = rows
    PROVE  RowsInv'
  BY DEF RowsInv, Grows

LEMMA LinesKept ==
    ASSUME LinesInv, Grows, lines' = lines
    PROVE  LinesInv'
  BY Grown DEF LinesInv

LEMMA MarksKept ==
    ASSUME NEW p, MarksInv(p), Grows, marks'[p] = marks[p]
    PROVE  MarksInv(p)'
  BY DEF MarksInv, Grows

LEMMA ResultsKept ==
    ASSUME NEW p, ResultsInv(p), Grows, results'[p] = results[p],
           pc'[p] \in {"generate", "judge"} => pc[p] \in {"generate", "judge"},
           pc'[p] = "record" => pc[p] = "record"
    PROVE  ResultsInv(p)'
<1>1. Cases(p)' = Cases(p) /\ command' = command
  BY Grown DEF Grows
<1>2. \A k \in DOMAIN results[p] : Earned(command[p].model, results[p][k])'
  <2> SUFFICES ASSUME NEW k \in DOMAIN results[p] PROVE Earned(command[p].model, results[p][k])'
    OBVIOUS
  <2>1. Earned(command[p].model, results[p][k])
    BY DEF ResultsInv
  <2> QED
    BY <2>1 DEF Earned, Grows
<1> QED
  BY <1>1, <1>2 DEF ResultsInv

LEMMA NoCallKept ==
    ASSUME NEW p, call'[p] = NoCall
    PROVE  CallInv(p)'
  BY DEF CallInv, NoCall

LEMMA QuietKept ==
    ASSUME NEW p, CallInv(p), call[p].state = "none", call'[p] = call[p]
    PROVE  CallInv(p)'
  BY DEF CallInv

LEMMA Quiet ==
    ASSUME NEW p, CallInv(p), pc[p] # "judge", ~Doing(p, "judge")
    PROVE  call[p].state = "none"
  BY DEF CallInv

LEMMA ScoresIdle ==
    ASSUME NEW p, Grows, pc'[p] # "judge", pc'[p] \in Running => model'[p] = command[p].model
    PROVE  ScoresInv(p)'
  BY DEF ScoresInv, Grows, Running

\* Nothing changes of the case that q is judging.
SameCase(q) ==
    /\ pc'[q] = pc[q] /\ model'[q] = model[q] /\ results'[q] = results[q]
    /\ outcome'[q] = outcome[q] /\ scores'[q] = scores[q]

LEMMA CaseKept ==
    ASSUME Grows, NEW q, SameCase(q), ScoresInv(q), ResultsInv(q)
    PROVE  /\ ScoresInv(q)' /\ ResultsInv(q)'
           /\ This(q)' = This(q) /\ Metric(q)' = Metric(q)
<1>1. ResultsInv(q)'
  BY ResultsKept DEF SameCase
<1>2. This(q)' = This(q) /\ Metric(q)' = Metric(q)
  BY Grown DEF This, Metric, SameCase
<1>3. ScoresInv(q)'
  <2>1. CASE pc[q] # "judge"
    BY <2>1, ScoresIdle DEF ScoresInv, SameCase
  <2>2. CASE pc[q] = "judge"
    <3>1. \A k \in DOMAIN scores[q] :
             EarnedScore(model[q], Metrics[k], This(q), outcome[q], scores[q][k])'
      <4> SUFFICES ASSUME NEW k \in DOMAIN scores[q]
                   PROVE  EarnedScore(model[q], Metrics[k], This(q), outcome[q], scores[q][k])'
        OBVIOUS
      <4>1. EarnedScore(model[q], Metrics[k], This(q), outcome[q], scores[q][k])
        BY <2>2 DEF ScoresInv
      <4> QED
        BY <1>2, <4>1 DEF EarnedScore, Grows, SameCase
    <3>2. \A k \in DOMAIN scores'[q] :
             EarnedScore(model[q], Metrics[k], This(q), outcome[q], scores[q][k])'
      BY <3>1 DEF SameCase
    <3> QED
      BY <2>2, <3>2 DEF ScoresInv, SameCase, Grows, Running
  <2> QED
    BY <2>1, <2>2
<1> QED
  BY <1>1, <1>2, <1>3

LEMMA OthersEarned ==
    ASSUME Grows, NEW q, Same(q), CallInv(q), ScoresInv(q), ResultsInv(q), MarksInv(q)
    PROVE  CallInv(q)' /\ ScoresInv(q)' /\ ResultsInv(q)' /\ MarksInv(q)'
<1>1. MarksInv(q)'
  BY MarksKept DEF Same
<1>2. SameCase(q)
  BY DEF Same, SameCase
<1>3. ScoresInv(q)' /\ ResultsInv(q)' /\ This(q)' = This(q) /\ Metric(q)' = Metric(q)
  BY <1>2, CaseKept
<1>4. CallInv(q)'
  BY <1>3 DEF CallInv, Same, Grows, Doing, Next1
<1> QED
  BY <1>1, <1>3, <1>4

\* What the step of p keeps of its own.
OwnKept(p) == CallInv(p)' /\ ScoresInv(p)' /\ ResultsInv(p)' /\ MarksInv(p)'

LEMMA GivesUp ==
    ASSUME Kept, NEW p \in Process, GiveUp(p)
    PROVE  pc'[p] \in {"load", "done", "failed"}
  BY DEF GiveUp, NextConfig, Goto, Kept

\* The call of p finds its row, or waits for the reply.
LEMMA Asks ==
    ASSUME EarnedInv, Grows, NEW p \in Process, NEW subject, Ask(p, subject)
    PROVE  /\ call[p].state = "none"
           /\ call'[p].key = <<model[p], subject>>
           /\ call'[p] = [state |-> call'[p].state, key |-> call'[p].key, keep |-> call'[p].keep,
                          score |-> call'[p].score, paid |-> call'[p].paid]
           /\ call'[p].state = "scored" =>
                 <<call'[p].key[1], call'[p].key[2], call'[p].score>> \in given'
<1>1. DOMAIN call = Process /\ call[p].state = "none" /\ given' = given
  BY DEF EarnedInv, Kept, Ask
<1> DEFINE key == <<model[p], subject>>
<1>k. key[1] = model[p] /\ key[2] = subject
  OBVIOUS
<1>a. ASSUME NEW state, NEW keep, NEW score, NEW paid,
             call'[p] = [state |-> state, key |-> key, keep |-> keep, score |-> score, paid |-> paid],
             state = "scored" => <<key[1], key[2], score>> \in given
      PROVE  /\ call'[p].key = key
             /\ call'[p] = [state |-> call'[p].state, key |-> call'[p].key, keep |-> call'[p].keep,
                            score |-> call'[p].score, paid |-> call'[p].paid]
             /\ call'[p].state = "scored" =>
                   <<call'[p].key[1], call'[p].key[2], call'[p].score>> \in given'
  <2> HIDE DEF key
  <2>1. call'[p].key = key /\ call'[p].state = state /\ call'[p].score = score
    BY <1>a
  <2>2. call'[p].keep = keep /\ call'[p].paid = paid
    BY <1>a
  <2> QED
    BY <1>1, <1>a, <2>1, <2>2
<1>2. CASE enabled[p] /\ Cached(Key(model[p], subject))
  <2>1. <<model[p], subject, Parse(rows[Key(model[p], subject)])>> \in given
    <3>1. <<model[p], subject>>[1] = model[p] /\ <<model[p], subject>>[2] = subject
      OBVIOUS
    <3> QED
      BY <1>2, <3>1 DEF EarnedInv, RowsInv, Cached, Key
  <2>2. call'[p] = [state |-> "scored", key |-> <<model[p], subject>>, keep |-> enabled[p],
                    score |-> Parse(rows[Key(model[p], subject)]), paid |-> FALSE]
    BY <1>1, <1>2 DEF Ask
  <2>3. <<key[1], key[2], Parse(rows[Key(model[p], subject)])>> \in given
    BY <1>k, <2>1
  <2> HIDE DEF key
  <2> QED
    BY <1>1, <1>a, <2>2, <2>3 DEF key
<1>3. CASE ~(enabled[p] /\ Cached(Key(model[p], subject)))
  <2>1. call'[p] = [state |-> "asked", key |-> <<model[p], subject>>, keep |-> enabled[p],
                    score |-> 0, paid |-> FALSE]
    BY <1>1, <1>3 DEF Ask
  <2>2. "asked" # "scored"
    OBVIOUS
  <2> HIDE DEF key
  <2> QED
    BY <1>1, <1>a, <2>1, <2>2 DEF key
<1> QED
  BY <1>2, <1>3

\* A command starts, selects its cases, or has a case answered.
LEMMA CasesEarned ==
    ASSUME EarnedInv, Grows, NEW p \in Process, UNCHANGED auditing,
           Start(p) \/ Load(p) \/ Generate(p) \/ GenerateRaises(p)
    PROVE  RowsInv' /\ LinesInv' /\ OwnKept(p)
<1>1. RowsInv' /\ LinesInv'
  BY RowsKept, LinesKept DEF EarnedInv, Start, Load, Generate, GenerateRaises, judging, file
<1>2. MarksInv(p)'
  BY MarksKept DEF EarnedInv, auditing
<1>3. CallInv(p)'
  <2>1. call'[p] = call[p] /\ pc[p] \in {"idle", "load", "generate"}
    BY DEF Start, Load, Generate, GenerateRaises, judging
  <2>2. call[p].state = "none"
    BY <2>1, Quiet DEF EarnedInv, Doing
  <2> QED
    BY <2>1, <2>2, QuietKept DEF EarnedInv
<1> USE DEF Kept
<1>4. CASE Start(p)
  <2>1. pc'[p] = "load" /\ model'[p] = command[p].model /\ results'[p] = results[p]
    BY <1>4 DEF Start, Goto, EarnedInv
  <2>2. ScoresInv(p)' /\ ResultsInv(p)'
    BY <2>1, ScoresIdle, ResultsKept DEF EarnedInv
  <2> QED
    BY <1>1, <1>2, <1>3, <2>2 DEF OwnKept
<1>5. CASE Load(p)
  <2>1. /\ results'[p] = << >> /\ model'[p] = model[p] /\ pc[p] = "load"
        /\ pc'[p] \in {"load", "done", "failed", "generate"}
        /\ pc'[p] = "generate" => Cases(p) # << >>
    BY <1>5, GivesUp DEF Load, Goto, EarnedInv, judging
  <2>2. ScoresInv(p)'
    BY <2>1, ScoresIdle DEF EarnedInv, ScoresInv, Running
  <2>3. results'[p] \in Seq({}) /\ Len(results'[p]) = 0
    BY <2>1
  <2>4. IsSeq(results[p])' /\ DOMAIN results'[p] = {}
    BY <2>3, NoElements DEF IsSeq, Values
  <2>5. pc'[p] = "generate" => Len(results'[p]) < Len(Cases(p)')
    BY <2>1, <2>3, CasesSeq, TailFacts, Grown
  <2>6. ResultsInv(p)'
    BY <2>1, <2>4, <2>5 DEF ResultsInv
  <2> QED
    BY <1>1, <1>2, <1>3, <2>2, <2>6 DEF OwnKept
<1>6. CASE Generate(p)
  <2>1. /\ results'[p] = results[p] /\ model'[p] = model[p] /\ pc[p] = "generate"
        /\ pc'[p] = "judge" /\ scores'[p] = << >>
    BY <1>6 DEF Generate, Goto, EarnedInv, judging
  <2>2. scores'[p] \in Seq({}) /\ Len(scores'[p]) = 0 /\ Len(Metrics) \in Nat
    BY <2>1, EvalAssumption
  <2>3. IsSeq(scores[p])' /\ DOMAIN scores'[p] = {}
    BY <2>2, NoElements DEF IsSeq, Values
  <2>4. ScoresInv(p)'
    BY <2>1, <2>2, <2>3 DEF EarnedInv, ScoresInv, Running, Grows
  <2>5. ResultsInv(p)'
    BY <2>1, ResultsKept DEF EarnedInv
  <2> QED
    BY <1>1, <1>2, <1>3, <2>4, <2>5 DEF OwnKept
<1>7. CASE GenerateRaises(p)
  <2>1. /\ results'[p] = results[p] /\ model'[p] = model[p] /\ pc[p] = "generate"
        /\ pc'[p] \in {"load", "done", "failed"}
    BY <1>7, GivesUp DEF GenerateRaises, EarnedInv, judging
  <2>2. ScoresInv(p)' /\ ResultsInv(p)'
    BY <2>1, ScoresIdle, ResultsKept DEF EarnedInv, ScoresInv, Running
  <2> QED
    BY <1>1, <1>2, <1>3, <2>2 DEF OwnKept
<1> QED
  BY <1>4, <1>5, <1>6, <1>7

LEMMA AppendPair ==
    ASSUME NEW a, NEW b, NEW x
    PROVE  Append(<<a, b>>, x) = <<a, b, x>>
<1> DEFINE T == {a, b, x}
           s == <<a, b>>
           t == <<a, b, x>>
<1>1. s \in Seq(T) /\ Len(s) = 2 /\ x \in T /\ t \in Seq(T) /\ Len(t) = 3
  OBVIOUS
<1>2. s[1] = a /\ s[2] = b /\ t[1] = a /\ t[2] = b /\ t[3] = x
  OBVIOUS
<1> DEFINE u == Append(s, x)
<1> HIDE DEF s, t, T
<1>a. IsSeq(s)
  BY <1>1, SomeSeq
<1>3. u \in Seq(T) /\ Len(u) = 3
  <2>1. u \in Seq(T)
    BY <1>1
  <2>2. Len(u) = Len(s) + 1
    BY <1>a, AppendFacts
  <2> QED
    BY <1>1, <2>1, <2>2
<1>4. u[1] = s[1] /\ u[2] = s[2] /\ u[3] = x
  <2>1. (\A k \in 1 .. Len(s) : u[k] = s[k]) /\ u[Len(s) + 1] = x
    BY <1>a, AppendFacts
  <2>2. 1 \in 1 .. Len(s) /\ 2 \in 1 .. Len(s) /\ Len(s) + 1 = 3
    BY <1>1
  <2> HIDE DEF u
  <2> QED
    BY <2>1, <2>2
<1> HIDE DEF u
<1>5. u = t
  <2>1. \A k \in 1 .. 3 : u[k] = t[k]
    <3>1. \A k \in 1 .. 3 : k = 1 \/ k = 2 \/ k = 3
      OBVIOUS
    <3> QED
      BY <1>2, <1>4, <3>1
  <2> QED
    BY <1>1, <1>3, <2>1
<1> QED
  BY <1>5 DEF s, t, u

\* A judge call begins, gets its reply, or raises.
LEMMA CallsEarned ==
    ASSUME EarnedInv, Grows, NEW p \in Process, UNCHANGED auditing,
           AskJudge(p) \/ JudgeReplies(p) \/ JudgeFails(p)
    PROVE  RowsInv' /\ LinesInv' /\ OwnKept(p)
<1> USE DEF Kept
<1>1. UNCHANGED <<running, file>> /\ UNCHANGED <<enabled, model, stored>>
  BY DEF AskJudge, JudgeReplies, JudgeFails, Ask, Replies, JudgeRaises
<1>2. LinesInv' /\ MarksInv(p)'
  BY <1>1, LinesKept, MarksKept DEF EarnedInv, auditing, file
<1>3. /\ ScoresInv(p)' /\ ResultsInv(p)' /\ This(p)' = This(p) /\ Metric(p)' = Metric(p)
      /\ Doing(p, "judge")' = Doing(p, "judge") /\ Next1(p)' = Next1(p)
  <2>1. SameCase(p)
    BY <1>1 DEF SameCase, running
  <2> QED
    BY <1>1, <2>1, CaseKept DEF EarnedInv, running, auditing, Doing, Next1
<1>4. CASE AskJudge(p)
  <2>1. RowsInv'
    BY <1>4, RowsKept DEF AskJudge, Ask, EarnedInv
  <2>2. /\ pc'[p] = "judge" /\ scores'[p] = scores[p] /\ Len(scores[p]) < Len(Metrics)
        /\ outcome'[p] = outcome[p] /\ model'[p] = model[p] /\ ~Unasked(Metric(p), outcome[p])
    BY <1>1, <1>4 DEF AskJudge, running
  <2> DEFINE subject == SubjectOf(Metric(p), This(p), outcome[p])
  <2>3. Ask(p, subject)
    BY <1>4 DEF AskJudge
  <2>4. /\ call'[p].key = <<model[p], subject>>
        /\ call'[p] = [state |-> call'[p].state, key |-> call'[p].key, keep |-> call'[p].keep,
                       score |-> call'[p].score, paid |-> call'[p].paid]
        /\ call'[p].state = "scored" =>
              <<call'[p].key[1], call'[p].key[2], call'[p].score>> \in given'
    <3> HIDE DEF subject
    <3> QED
      BY <2>3, Asks
  <2>5. subject = SubjectOf(Metric(p)', This(p)', outcome'[p])
    BY <1>3, <2>2
  <2> HIDE DEF subject
  <2>6. CallInv(p)'
    BY <1>3, <2>2, <2>4, <2>5 DEF CallInv
  <2> QED
    BY <1>2, <1>3, <2>1, <2>6 DEF OwnKept
<1>5. CASE JudgeReplies(p)
  <2>1. PICK reply \in ReplyOf[call[p].key[2]] :
           /\ IF call[p].keep THEN Put(Key(call[p].key[1], call[p].key[2]), reply) ELSE UNCHANGED rows
           /\ call' = [call EXCEPT ![p].state = "scored", ![p].score = Parse(reply), ![p].paid = TRUE]
           /\ given' = given \cup {Append(call[p].key, Parse(reply))}
    BY <1>5 DEF JudgeReplies, Replies
  <2>2. call[p].state = "asked" /\ "asked" # "none"
    BY <1>5 DEF JudgeReplies, Replies
  <2>3. PICK a, b : call[p].key = <<a, b>>
    BY <2>2 DEF EarnedInv, CallInv
  <2>4. Append(call[p].key, Parse(reply)) = <<a, b, Parse(reply)>>
    BY <2>3, AppendPair
  <2>5. call[p].key[1] = a /\ call[p].key[2] = b /\ Key(a, b) = call[p].key
    BY <2>3 DEF Key
  <2>6. RowsInv'
    <3>1. CASE call[p].keep
      <4>1. Put(call[p].key, reply)
        BY <2>1, <2>5, <3>1
      <4>2. /\ DOMAIN rows' = DOMAIN rows \cup {call[p].key} /\ rows'[call[p].key] = reply
            /\ \A other \in DOMAIN rows : other # call[p].key => rows'[other] = rows[other]
        BY <4>1, PutGrows
      <4>3. ASSUME NEW key \in DOMAIN rows', key # call[p].key
            PROVE  <<key[1], key[2], Parse(rows'[key])>> \in given'
        BY <4>2, <4>3 DEF EarnedInv, RowsInv, Grows
      <4>4. <<a, b, Parse(reply)>> \in given'
        BY <2>1, <2>4
      <4> QED
        BY <2>5, <4>2, <4>3, <4>4 DEF RowsInv
    <3>2. CASE ~call[p].keep
      BY <2>1, <3>2, RowsKept DEF EarnedInv
    <3> QED
      BY <3>1, <3>2
  <2>7. CallInv(p)'
    <3>1. call[p] = [state |-> call[p].state, key |-> call[p].key, keep |-> call[p].keep,
                     score |-> call[p].score, paid |-> call[p].paid]
      BY DEF EarnedInv, CallInv
    <3>2. call'[p] = [state |-> "scored", key |-> call[p].key, keep |-> call[p].keep,
                      score |-> Parse(reply), paid |-> TRUE]
      <4>1. call'[p] = [call[p] EXCEPT !.state = "scored", !.score = Parse(reply), !.paid = TRUE]
        BY <2>1 DEF EarnedInv
      <4> QED
        BY <3>1, <4>1
    <3>3. <<call'[p].key[1], call'[p].key[2], call'[p].score>> \in given'
      BY <2>1, <2>4, <2>5, <3>2
    <3>4. /\ pc'[p] = pc[p] /\ scores'[p] = scores[p] /\ outcome'[p] = outcome[p] /\ model'[p] = model[p]
      BY <1>1 DEF running
    <3>5. call'[p].key = call[p].key
      BY <3>2
    <3> QED
      BY <1>3, <2>2, <3>2, <3>3, <3>4, <3>5 DEF EarnedInv, CallInv
  <2> QED
    BY <1>2, <1>3, <2>6, <2>7 DEF OwnKept
<1>6. CASE JudgeFails(p)
  <2>1. RowsInv'
    BY <1>6, RowsKept DEF JudgeFails, JudgeRaises, EarnedInv
  <2>2. /\ call[p].state = "asked" /\ "asked" # "none" /\ "raised" # "scored"
        /\ call'[p] = [call[p] EXCEPT !.state = "raised"]
    BY <1>6 DEF JudgeFails, JudgeRaises, EarnedInv
  <2>3. call'[p] = [state |-> "raised", key |-> call[p].key, keep |-> call[p].keep,
                    score |-> call[p].score, paid |-> call[p].paid]
    BY <2>2 DEF EarnedInv, CallInv
  <2>4. /\ pc'[p] = pc[p] /\ scores'[p] = scores[p] /\ outcome'[p] = outcome[p] /\ model'[p] = model[p]
    BY <1>1 DEF running
  <2>5. call'[p].key = call[p].key
    BY <2>3
  <2>6. CallInv(p)'
    BY <1>3, <2>2, <2>3, <2>4, <2>5 DEF EarnedInv, CallInv
  <2> QED
    BY <1>2, <1>3, <2>1, <2>6 DEF OwnKept
<1> QED
  BY <1>4, <1>5, <1>6

\* One more score of the case being judged.
LEMMA ScoreAdded ==
    ASSUME EarnedInv, Grows, NEW p \in Process, NEW x, pc[p] = "judge", Len(scores[p]) < Len(Metrics),
           EarnedScore(model[p], Metric(p), This(p), outcome[p], x),
           scores'[p] = Append(scores[p], x), pc'[p] = pc[p], model'[p] = model[p],
           outcome'[p] = outcome[p], results'[p] = results[p]
    PROVE  ScoresInv(p)' /\ ResultsInv(p)'
<1>1. ResultsInv(p)'
  BY ResultsKept DEF EarnedInv
<1>2. This(p)' = This(p) /\ given \subseteq given' /\ command' = command
  BY Grown DEF This, Grows
<1>3. IsSeq(scores[p]) /\ Len(scores[p]) \in Nat /\ Len(Metrics) \in Nat /\ model[p] = command[p].model
  <2>1. IsSeq(scores[p]) /\ model[p] = command[p].model
    BY DEF EarnedInv, ScoresInv, Running
  <2> QED
    BY <2>1, SeqFacts, EvalAssumption
<1>4. /\ IsSeq(scores'[p]) /\ Len(scores'[p]) = Len(scores[p]) + 1
      /\ DOMAIN scores'[p] = 1 .. Len(scores[p]) + 1
      /\ \A k \in 1 .. Len(scores[p]) : scores'[p][k] = scores[p][k]
      /\ scores'[p][Len(scores[p]) + 1] = x
  BY <1>3, AppendFacts
<1>5. ASSUME NEW k \in DOMAIN scores'[p]
      PROVE  EarnedScore(model[p], Metrics[k], This(p), outcome[p], scores'[p][k])
  <2>1. CASE k = Len(scores[p]) + 1
    BY <1>4, <2>1 DEF Metric
  <2>2. CASE k # Len(scores[p]) + 1
    <3>1. k \in 1 .. Len(scores[p]) /\ DOMAIN scores[p] = 1 .. Len(scores[p])
      BY <1>3, <1>4, <2>2, SeqFacts
    <3> QED
      BY <1>4, <3>1 DEF EarnedInv, ScoresInv
  <2> QED
    BY <2>1, <2>2
<1>6. \A k \in DOMAIN scores'[p] : EarnedScore(model[p], Metrics[k], This(p), outcome[p], scores[p][k])'
  BY <1>2, <1>5 DEF EarnedScore
<1>7. IsSeq(scores[p])'
  BY <1>4 DEF IsSeq, Values
<1>8. Len(scores'[p]) <= Len(Metrics)
  BY <1>3, <1>4
<1>9. ScoresInv(p)'
  BY <1>2, <1>3, <1>6, <1>7, <1>8 DEF ScoresInv
<1> QED
  BY <1>1, <1>9

LEMMA ScoringEarned ==
    ASSUME EarnedInv, Grows, NEW p \in Process, UNCHANGED auditing,
           SkipJudge(p) \/ TakeScore(p) \/ JudgeRaised(p) \/ Crash(p)
    PROVE  RowsInv' /\ LinesInv' /\ OwnKept(p)
<1> USE DEF Kept
<1>1. RowsInv' /\ LinesInv' /\ MarksInv(p)' /\ UNCHANGED <<model, given, results, outcome>>
  <2>1. UNCHANGED <<rows, lines, marks>> /\ UNCHANGED <<model, given, results, outcome>>
    BY DEF SkipJudge, TakeScore, JudgeRaised, Crash, Returned, judging, file, auditing
  <2> QED
    BY <2>1, RowsKept, LinesKept, MarksKept DEF EarnedInv
<1>2. CASE SkipJudge(p)
  <2>1. /\ pc[p] = "judge" /\ Len(scores[p]) < Len(Metrics) /\ Unasked(Metric(p), outcome[p])
        /\ scores'[p] = Append(scores[p], 0) /\ pc'[p] = pc[p] /\ call'[p] = call[p]
    BY <1>2 DEF SkipJudge, judging, EarnedInv
  <2>2. EarnedScore(model[p], Metric(p), This(p), outcome[p], 0)
    BY <2>1 DEF EarnedScore
  <2>3. ScoresInv(p)' /\ ResultsInv(p)'
    BY <1>1, <2>1, <2>2, ScoreAdded
  <2>4. call[p].state = "none"
    BY <2>1 DEF EarnedInv, CallInv, Doing
  <2>5. CallInv(p)'
    BY <2>1, <2>4, QuietKept DEF EarnedInv
  <2> QED
    BY <1>1, <2>3, <2>5 DEF OwnKept
<1>3. CASE TakeScore(p)
  <2>1. /\ pc[p] = "judge" /\ call[p].state = "scored" /\ "scored" # "none"
        /\ scores'[p] = Append(scores[p], call[p].score) /\ pc'[p] = pc[p] /\ call'[p] = NoCall
    BY <1>3 DEF TakeScore, Returned, EarnedInv
  <2>2. /\ Len(scores[p]) < Len(Metrics) /\ ~Unasked(Metric(p), outcome[p])
        /\ call[p].key = <<model[p], SubjectOf(Metric(p), This(p), outcome[p])>>
        /\ <<call[p].key[1], call[p].key[2], call[p].score>> \in given
    BY <2>1 DEF EarnedInv, CallInv, Doing
  <2>3. EarnedScore(model[p], Metric(p), This(p), outcome[p], call[p].score)
    BY <2>2 DEF EarnedScore
  <2>4. ScoresInv(p)' /\ ResultsInv(p)'
    BY <1>1, <2>1, <2>2, <2>3, ScoreAdded
  <2>5. CallInv(p)'
    BY <2>1, NoCallKept
  <2> QED
    BY <1>1, <2>4, <2>5 DEF OwnKept
<1>4. CASE JudgeRaised(p) \/ Crash(p)
  <2>1. pc'[p] \in {"load", "done", "failed", "dead"} /\ call'[p] = NoCall
        /\ (pc'[p] \in Running => pc[p] = "judge")
    <3>1. CASE JudgeRaised(p)
      BY <3>1, GivesUp DEF JudgeRaised, Returned, EarnedInv
    <3>2. CASE Crash(p)
      BY <3>2 DEF Crash, Goto, Returned, EarnedInv, Running
    <3> QED
      BY <1>4, <3>1, <3>2
  <2>2. pc'[p] \in Running => model'[p] = command[p].model
    BY <1>1, <2>1 DEF EarnedInv, ScoresInv, Running
  <2>3. ScoresInv(p)' /\ ResultsInv(p)'
    BY <1>1, <2>1, <2>2, ScoresIdle, ResultsKept DEF EarnedInv
  <2>4. CallInv(p)'
    BY <2>1, NoCallKept
  <2> QED
    BY <1>1, <2>3, <2>4 DEF OwnKept
<1> QED
  BY <1>2, <1>3, <1>4

\* A case is judged, on every metric.
LEMMA EndCaseEarned ==
    ASSUME EarnedInv, Grows, NEW p \in Process, UNCHANGED auditing, EndCase(p)
    PROVE  RowsInv' /\ LinesInv' /\ OwnKept(p)
<1> USE DEF Kept
<1> DEFINE result == [case |-> This(p), outcome |-> outcome[p],
                      recall |-> Recall(This(p), outcome[p].files), scores |-> scores[p]]
<1>1. RowsInv' /\ LinesInv' /\ MarksInv(p)'
  BY RowsKept, LinesKept, MarksKept DEF EndCase, judging, file, auditing, EarnedInv
<1>2. /\ pc[p] = "judge" /\ Len(scores[p]) = Len(Metrics) /\ results'[p] = Append(results[p], result)
      /\ pc'[p] = IF Len(results[p]) + 1 = Len(Cases(p)) THEN "record" ELSE "generate"
      /\ call'[p] = call[p] /\ model'[p] = model[p] /\ given' = given /\ command' = command
  BY DEF EndCase, Goto, judging, EarnedInv
<1>3. CallInv(p)'
  <2>1. ~(Len(scores[p]) < Len(Metrics))
    <3>1. Len(Metrics) \in Nat
      BY EvalAssumption
    <3> QED
      BY <1>2, <3>1
  <2>2. call[p].state = "none"
    <3>1. CallInv(p)
      BY DEF EarnedInv
    <3>2. pc[p] # "audit"
      BY <1>2
    <3> QED
      BY <2>1, <3>1, <3>2 DEF CallInv, Doing
  <2> QED
    BY <1>2, <2>2, QuietKept DEF EarnedInv
<1>4. result.case = This(p) /\ result.outcome = outcome[p] /\ result.scores = scores[p]
  OBVIOUS
<1> HIDE DEF result
<1>5. ScoresInv(p)'
  BY <1>2, ScoresIdle DEF EarnedInv, ScoresInv, Running
<1>6. Earned(command[p].model, result)
  <2> SUFFICES ASSUME NEW k \in DOMAIN Metrics
               PROVE  EarnedScore(command[p].model, Metrics[k], result.case, result.outcome, result.scores[k])
    BY DEF Earned, EarnedScore
  <2>1. IsSeq(scores[p]) /\ command[p].model = model[p]
    BY <1>2 DEF EarnedInv, ScoresInv, Running
  <2>2. k \in DOMAIN scores[p]
    BY <1>2, <2>1, SeqFacts, EvalAssumption
  <2> QED
    BY <1>2, <1>4, <2>1, <2>2 DEF EarnedInv, ScoresInv
<1>7. ResultsInv(p)'
  <2>1. /\ IsSeq(results[p]) /\ Len(results[p]) \in Nat /\ DOMAIN results[p] = 1 .. Len(results[p])
        /\ Len(results[p]) < Len(Cases(p)) /\ Len(Cases(p)) \in Nat
    BY <1>2, SeqFacts, CasesSeq DEF EarnedInv, ResultsInv
  <2>2. /\ IsSeq(results'[p]) /\ Len(results'[p]) = Len(results[p]) + 1
        /\ DOMAIN results'[p] = 1 .. Len(results[p]) + 1
        /\ \A k \in 1 .. Len(results[p]) : results'[p][k] = results[p][k]
        /\ results'[p][Len(results[p]) + 1] = result
    BY <1>2, <2>1, AppendFacts
  <2>3. ASSUME NEW k \in DOMAIN results'[p]
        PROVE  results'[p][k].case = Cases(p)[k] /\ Earned(command[p].model, results'[p][k])
    <3>1. CASE k = Len(results[p]) + 1
      BY <1>4, <1>6, <2>2, <3>1 DEF This
    <3>2. CASE k # Len(results[p]) + 1
      <4>1. k \in DOMAIN results[p]
        BY <2>1, <2>2, <3>2
      <4> QED
        BY <2>1, <2>2, <4>1 DEF EarnedInv, ResultsInv
    <3> QED
      BY <3>1, <3>2
  <2>4. \A k \in DOMAIN results'[p] :
           results'[p][k].case = Cases(p)'[k] /\ Earned(command[p].model, results[p][k])'
    <3>1. Cases(p)' = Cases(p)
      BY Grown
    <3> QED
      BY <1>2, <2>3, <3>1 DEF Earned
  <2>5. pc'[p] \in {"generate", "judge"} => Len(results'[p]) < Len(Cases(p)')
    <3>1. Cases(p)' = Cases(p)
      BY Grown
    <3> QED
      BY <1>2, <2>1, <2>2, <3>1
  <2>6. pc'[p] = "record" => Len(results'[p]) = Len(Cases(p)')
    <3>1. Cases(p)' = Cases(p)
      BY Grown
    <3> QED
      BY <1>2, <2>1, <2>2, <3>1
  <2>7. IsSeq(results[p])'
    BY <2>2 DEF IsSeq, Values
  <2> QED
    BY <2>4, <2>5, <2>6, <2>7 DEF ResultsInv
<1> QED
  BY <1>1, <1>3, <1>5, <1>7 DEF OwnKept

\* A line is written at the end of the file.
LEMMA LineWritten ==
    ASSUME LinesInv, Grows, NEW e, EntryEarned(e), NEW readable, lines' = Written(e, readable)
    PROVE  LinesInv'
<1>1. IsSeq(lines) /\ DOMAIN lines = 1 .. Len(lines) /\ Len(lines) \in Nat
  BY SeqFacts DEF LinesInv
<1>2. ASSUME IsSeq(lines'),
             \A k \in DOMAIN lines' :
                /\ lines'[k] = [entry |-> lines'[k].entry, readable |-> lines'[k].readable]
                /\ lines'[k].readable => EntryEarned(lines'[k].entry)
      PROVE  LinesInv'
  <2>1. IsSeq(lines)'
    BY <1>2 DEF IsSeq, Values
  <2>2. \A k \in DOMAIN lines' : lines'[k].readable => EntryEarned(lines[k].entry)'
    <3> SUFFICES ASSUME NEW k \in DOMAIN lines', lines'[k].readable PROVE EntryEarned(lines[k].entry)'
      OBVIOUS
    <3>1. EntryEarned(lines'[k].entry)
      BY <1>2
    <3> DEFINE f == lines'[k].entry
    <3>2. PICK g : g = f
      OBVIOUS
    <3>3. EntryEarned(g)'
      BY <3>1, <3>2, Grown
    <3> QED
      BY <3>2, <3>3 DEF EntryEarned
  <2> QED
    BY <1>2, <2>1, <2>2 DEF LinesInv
<1>3. CASE cut
  <2> DEFINE n == Len(lines)
  <2>1. lines' = [lines EXCEPT ![n].readable = FALSE]
    BY <1>3 DEF Written
  <2>2. DOMAIN lines' = 1 .. n /\ \A k \in 1 .. n : k # n => lines'[k] = lines[k]
    BY <1>1, <2>1
  <2>3. n \in 1 .. n => lines'[n] = [entry |-> lines[n].entry, readable |-> FALSE]
    <3> SUFFICES ASSUME n \in 1 .. n PROVE lines'[n] = [entry |-> lines[n].entry, readable |-> FALSE]
      OBVIOUS
    <3>1. lines'[n] = [lines[n] EXCEPT !.readable = FALSE]
      BY <1>1, <2>1
    <3>2. lines[n] = [entry |-> lines[n].entry, readable |-> lines[n].readable]
      BY <1>1 DEF LinesInv
    <3> QED
      BY <3>1, <3>2
  <2>4. IsSeq(lines')
    <3>1. lines' = [k \in 1 .. n |-> lines'[k]]
      BY <1>1, <2>1
    <3> QED
      BY <1>1, <3>1, Listed
  <2>5. \A k \in DOMAIN lines' :
           /\ lines'[k] = [entry |-> lines'[k].entry, readable |-> lines'[k].readable]
           /\ lines'[k].readable => EntryEarned(lines'[k].entry)
    <3> SUFFICES ASSUME NEW k \in 1 .. n
                 PROVE  /\ lines'[k] = [entry |-> lines'[k].entry, readable |-> lines'[k].readable]
                        /\ lines'[k].readable => EntryEarned(lines'[k].entry)
      BY <2>2
    <3>1. CASE k = n
      BY <2>3, <3>1
    <3>2. CASE k # n
      BY <1>1, <2>2, <3>2 DEF LinesInv
    <3> QED
      BY <3>1, <3>2
  <2> QED
    BY <1>2, <2>4, <2>5
<1>4. CASE ~cut
  <2> DEFINE line == [entry |-> e, readable |-> readable]
  <2>1. lines' = Append(lines, line)
    BY <1>4 DEF Written
  <2>2. line = [entry |-> line.entry, readable |-> line.readable] /\ line.entry = e
    OBVIOUS
  <2> HIDE DEF line
  <2>3. /\ IsSeq(lines') /\ DOMAIN lines' = 1 .. Len(lines) + 1
        /\ \A k \in 1 .. Len(lines) : lines'[k] = lines[k]
        /\ lines'[Len(lines) + 1] = line
    BY <1>1, <2>1, AppendFacts
  <2>4. \A k \in DOMAIN lines' :
           /\ lines'[k] = [entry |-> lines'[k].entry, readable |-> lines'[k].readable]
           /\ lines'[k].readable => EntryEarned(lines'[k].entry)
    <3> SUFFICES ASSUME NEW k \in DOMAIN lines'
                 PROVE  /\ lines'[k] = [entry |-> lines'[k].entry, readable |-> lines'[k].readable]
                        /\ lines'[k].readable => EntryEarned(lines'[k].entry)
      OBVIOUS
    <3>1. CASE k = Len(lines) + 1
      BY <2>2, <2>3, <3>1
    <3>2. CASE k # Len(lines) + 1
      <4>1. k \in 1 .. Len(lines)
        BY <1>1, <2>3, <3>2
      <4> QED
        BY <1>1, <2>3, <4>1 DEF LinesInv
    <3> QED
      BY <3>1, <3>2
  <2> QED
    BY <1>2, <2>3, <2>4
<1> QED
  BY <1>3, <1>4

\* A run that has judged all its cases is one whole run.
LEMMA WholeRun ==
    ASSUME EarnedInv, NEW p \in Process, pc[p] = "record"
    PROVE  EntryEarned(Entry(p))
<1> DEFINE s == Cases(p)
           t == [k \in DOMAIN results[p] |-> results[p][k].case]
<1>1. Entry(p).process = p /\ Entry(p).results = results[p]
  BY DEF Entry
<1>2. /\ IsSeq(s) /\ DOMAIN s = 1 .. Len(s) /\ IsSeq(results[p]) /\ Len(results[p]) = Len(s)
      /\ DOMAIN results[p] = 1 .. Len(s)
      /\ \A k \in DOMAIN results[p] : results[p][k].case = s[k] /\ Earned(command[p].model, results[p][k])
  BY CasesSeq, SeqFacts DEF EarnedInv, ResultsInv
<1>3. s = [k \in 1 .. Len(s) |-> s[k]]
  <2> DEFINE T == Values(s)
  <2>1. s \in Seq(T)
    BY <1>2 DEF IsSeq
  <2> HIDE DEF T, s
  <2> QED
    BY <2>1
<1> HIDE DEF s
<1>4. t = s
  BY <1>2, <1>3
<1> QED
  BY <1>1, <1>2, <1>4 DEF EntryEarned, s

LEMMA RecordEarned ==
    ASSUME EarnedInv, Grows, NEW p \in Process, UNCHANGED auditing,
           FinishRun(p) \/ RecordFails(p) \/ FinishUnrecorded(p)
    PROVE  RowsInv' /\ LinesInv' /\ OwnKept(p)
<1> USE DEF Kept
<1>1. UNCHANGED judging /\ UNCHANGED results /\ pc[p] = "record"
  BY DEF FinishRun, RecordFails, FinishUnrecorded
<1>2. RowsInv' /\ MarksInv(p)'
  BY <1>1, RowsKept, MarksKept DEF EarnedInv, judging, auditing
<1>3. CallInv(p)'
  <2>1. call[p].state = "none"
    BY <1>1, Quiet DEF EarnedInv, Doing
  <2> QED
    BY <1>1, <2>1, QuietKept DEF EarnedInv, judging
<1>4. pc'[p] \in {"load", "done", "failed", "plan"}
  <2>1. CASE FinishRun(p)
    BY <2>1 DEF FinishRun, NextConfig, Goto, EarnedInv
  <2>2. CASE RecordFails(p)
    BY <2>2, GivesUp DEF RecordFails, EarnedInv
  <2>3. CASE FinishUnrecorded(p)
    BY <2>3 DEF FinishUnrecorded, Goto, EarnedInv
  <2> QED
    BY <2>1, <2>2, <2>3
<1>5. ScoresInv(p)' /\ ResultsInv(p)'
  <2>1. model'[p] = command[p].model
    BY <1>1 DEF EarnedInv, ScoresInv, Running, judging
  <2> QED
    BY <1>1, <1>4, <2>1, ScoresIdle, ResultsKept DEF EarnedInv
<1>6. LinesInv'
  <2> DEFINE e == Entry(p)
  <2>1. EntryEarned(e)
    BY <1>1, WholeRun
  <2> HIDE DEF e
  <2>2. UNCHANGED lines \/ \E readable : lines' = Written(e, readable)
    BY DEF FinishRun, RecordFails, FinishUnrecorded, file, e
  <2> QED
    BY <2>1, <2>2, LineWritten, LinesKept DEF EarnedInv
<1> QED
  BY <1>2, <1>3, <1>5, <1>6 DEF OwnKept

\* The settings change, a call begins, its score becomes a mark, or an exception
\* ends the audit.
LEMMA AuditEarned ==
    ASSUME EarnedInv, Grows, NEW p \in Process, AuditTask(p)
    PROVE  RowsInv' /\ LinesInv' /\ OwnKept(p)
<1> USE DEF Kept
<1>1. rows' = rows /\ lines' = lines /\ results' = results /\ given' = given /\ pc[p] = "audit"
  BY DEF AuditTask, CacheOff, Restore, SetModel, AskForMark, TakeMark, AuditFails, EndAudit, Doing,
         Ask, Returned, running, file
<1>2. RowsInv' /\ LinesInv'
  BY <1>1, RowsKept, LinesKept DEF EarnedInv
<1>3. ScoresInv(p)' /\ ResultsInv(p)'
  <2>1. pc'[p] \in {"audit", "failed"}
    <3>1. CASE AuditFails(p)
      BY <3>1 DEF AuditFails, EndAudit, Goto, EarnedInv
    <3>2. CASE ~AuditFails(p)
      BY <1>1, <3>2 DEF AuditTask, CacheOff, Restore, SetModel, AskForMark, TakeMark, running
    <3> QED
      BY <3>1, <3>2
  <2> QED
    BY <1>1, <2>1, ScoresIdle, ResultsKept DEF EarnedInv, Running
<1>4. CASE CacheOff(p) \/ Restore(p) \/ SetModel(p)
  <2>1. call'[p] = call[p] /\ marks'[p] = marks[p]
    BY <1>4 DEF CacheOff, Restore, SetModel
  <2>2. ~Doing(p, "judge")
    <3>1. "off" # "judge" /\ "restore" # "judge" /\ "model" # "judge"
      OBVIOUS
    <3> QED
      BY <1>4, <3>1 DEF CacheOff, Restore, SetModel, Doing
  <2>3. call[p].state = "none"
    BY <1>1, <2>2, Quiet DEF EarnedInv
  <2> QED
    BY <1>2, <1>3, <2>1, <2>3, QuietKept, MarksKept DEF EarnedInv, OwnKept
<1>5. CASE AskForMark(p)
  <2>1. /\ Doing(p, "judge") /\ Ask(p, Next1(p).subject) /\ marks'[p] = marks[p]
        /\ plan' = plan /\ pc' = pc /\ model' = model
    BY <1>5 DEF AskForMark, auditing, running, Ask
  <2> DEFINE subject == Next1(p).subject
  <2>2. /\ call'[p].key = <<model[p], subject>>
        /\ call'[p] = [state |-> call'[p].state, key |-> call'[p].key, keep |-> call'[p].keep,
                       score |-> call'[p].score, paid |-> call'[p].paid]
        /\ call'[p].state = "scored" =>
              <<call'[p].key[1], call'[p].key[2], call'[p].score>> \in given'
    <3>1. Ask(p, subject)
      BY <2>1
    <3> HIDE DEF subject
    <3> QED
      BY <3>1, Asks
  <2>3. Doing(p, "judge")' /\ subject = Next1(p)'.subject
    BY <2>1 DEF Doing, Next1
  <2> HIDE DEF subject
  <2>4. CallInv(p)'
    BY <2>1, <2>2, <2>3 DEF CallInv
  <2> QED
    BY <1>2, <1>3, <2>1, <2>4, MarksKept DEF EarnedInv, OwnKept
<1>6. CASE TakeMark(p)
  <2> DEFINE mark == [use |-> Next1(p).use, subject |-> Next1(p).subject, model |-> model[p],
                      score |-> call[p].score, paid |-> call[p].paid]
  <2>1. /\ Doing(p, "judge") /\ call[p].state = "scored" /\ call'[p] = NoCall
        /\ marks'[p] = Append(marks[p], mark)
    BY <1>6 DEF TakeMark, Returned, EarnedInv
  <2>2. /\ call[p].key = <<model[p], Next1(p).subject>>
        /\ <<call[p].key[1], call[p].key[2], call[p].score>> \in given
    <3>1. "scored" # "none" /\ "audit" # "judge"
      OBVIOUS
    <3> QED
      BY <1>1, <2>1, <3>1 DEF EarnedInv, CallInv
  <2>3. <<mark.model, mark.subject, mark.score>> \in given
    BY <2>2
  <2> HIDE DEF mark
  <2>4. IsSeq(marks[p]) /\ DOMAIN marks[p] = 1 .. Len(marks[p]) /\ Len(marks[p]) \in Nat
    BY SeqFacts DEF EarnedInv, MarksInv
  <2>5. /\ IsSeq(marks'[p]) /\ DOMAIN marks'[p] = 1 .. Len(marks[p]) + 1
        /\ \A k \in 1 .. Len(marks[p]) : marks'[p][k] = marks[p][k]
        /\ marks'[p][Len(marks[p]) + 1] = mark
    BY <2>1, <2>4, AppendFacts
  <2>6. ASSUME NEW k \in DOMAIN marks'[p]
        PROVE  <<marks'[p][k].model, marks'[p][k].subject, marks'[p][k].score>> \in given'
    <3>1. CASE k = Len(marks[p]) + 1
      BY <1>1, <2>3, <2>5, <3>1
    <3>2. CASE k # Len(marks[p]) + 1
      <4>1. k \in DOMAIN marks[p] /\ k \in 1 .. Len(marks[p])
        BY <2>4, <2>5, <3>2
      <4> QED
        BY <1>1, <2>5, <4>1 DEF EarnedInv, MarksInv
    <3> QED
      BY <3>1, <3>2
  <2>7. IsSeq(marks[p])'
    BY <2>5 DEF IsSeq, Values
  <2>8. MarksInv(p)'
    BY <2>6, <2>7 DEF MarksInv
  <2> QED
    BY <1>2, <1>3, <2>1, <2>8, NoCallKept DEF OwnKept
<1>7. CASE AuditFails(p)
  <2>1. call'[p] = NoCall /\ marks'[p] = << >>
    BY <1>7 DEF AuditFails, EndAudit, EarnedInv
  <2>2. marks'[p] \in Seq({})
    BY <2>1
  <2>3. IsSeq(marks[p])' /\ DOMAIN marks'[p] = {}
    BY <2>2, NoElements DEF IsSeq, Values
  <2>4. MarksInv(p)'
    BY <2>3 DEF MarksInv
  <2> QED
    BY <1>2, <1>3, <2>1, <2>4, NoCallKept DEF OwnKept
<1> QED
  BY <1>4, <1>5, <1>6, <1>7 DEF AuditTask

LEMMA ProbeEarned ==
    ASSUME EarnedInv, Grows, NEW p \in Process, ProbeStep(p)
    PROVE  RowsInv' /\ LinesInv' /\ OwnKept(p)
<1> USE DEF Kept
<1>1. CASE ProbeRaises(p)
  <2>1. /\ call'[p] = NoCall /\ marks'[p] = << >> /\ pc'[p] = "failed"
        /\ rows' = rows /\ lines' = lines /\ results'[p] = results[p]
    BY <1>1 DEF ProbeRaises, EndAudit, Goto, EarnedInv, file
  <2>2. marks'[p] \in Seq({})
    BY <2>1
  <2>3. IsSeq(marks[p])' /\ DOMAIN marks'[p] = {}
    BY <2>2, NoElements DEF IsSeq, Values
  <2>4. MarksInv(p)'
    BY <2>3 DEF MarksInv
  <2> QED
    BY <2>1, <2>4, RowsKept, LinesKept, NoCallKept, ScoresIdle, ResultsKept
    DEF EarnedInv, OwnKept, Running
<1>2. CASE ~ProbeRaises(p)
  <2>1. /\ rows' = rows /\ lines' = lines /\ results' = results /\ marks' = marks /\ call' = call
        /\ pc[p] \in {"idle", "plan", "audit"} /\ ~Doing(p, "judge")
    <3>1. CASE StartProbe(p) \/ MakePlan(p) \/ Report(p)
      BY <3>1 DEF StartProbe, MakePlan, Report, judging, auditing, file, Doing
    <3>2. CASE GenerateCited(p) \/ GenerateNoisy(p)
      <4>1. "generate" # "judge"
        OBVIOUS
      <4> QED
        BY <3>2, <4>1 DEF GenerateCited, GenerateNoisy, Expand, judging, file, running, Doing
    <3>3. CASE Abstain(p) \/ Poison(p) \/ PoisonFacts(p)
      <4>1. "abstain" # "judge" /\ "poison" # "judge" /\ "counterfactual" # "judge"
        OBVIOUS
      <4> QED
        BY <3>3, <4>1 DEF Abstain, Poison, PoisonFacts, Rated, judging, file, running, Doing
    <3> QED
      BY <1>2, <3>1, <3>2, <3>3 DEF ProbeStep
  <2>2. pc'[p] \in {"plan", "audit", "done"}
    <3>1. CASE StartProbe(p) \/ MakePlan(p) \/ Report(p)
      BY <3>1 DEF StartProbe, MakePlan, Report, Goto, EarnedInv
    <3>2. CASE GenerateCited(p) \/ GenerateNoisy(p)
      BY <3>2 DEF GenerateCited, GenerateNoisy, Expand, running, Doing
    <3>3. CASE Abstain(p) \/ Poison(p) \/ PoisonFacts(p)
      BY <3>3 DEF Abstain, Poison, PoisonFacts, Rated, running, Doing
    <3> QED
      BY <1>2, <3>1, <3>2, <3>3 DEF ProbeStep
  <2>3. call[p].state = "none"
    BY <2>1, Quiet DEF EarnedInv
  <2>4. CallInv(p)'
    BY <2>1, <2>3, QuietKept DEF EarnedInv
  <2> QED
    BY <2>1, <2>2, <2>4, RowsKept, LinesKept, MarksKept, ScoresIdle, ResultsKept
    DEF EarnedInv, OwnKept, Running
<1> QED
  BY <1>1, <1>2

LEMMA EarnedNext == EarnedInv /\ [Next]_all => EarnedInv'
<1> SUFFICES ASSUME EarnedInv, [Next]_all PROVE EarnedInv'
  OBVIOUS
<1>1. Kept'
  BY KeptNext DEF EarnedInv
<1>2. ASSUME NEW p \in Process, Step(p) PROVE EarnedInv'
  <2>1. Grows /\ \A q \in Process : q # p => Same(q)
    BY <1>2, Others DEF EarnedInv
  <2>2. RowsInv' /\ LinesInv' /\ OwnKept(p)
    <3>1. CASE (EvalStep(p) \/ Crash(p)) /\ UNCHANGED <<auditing, rates, grade>>
      <4>1. UNCHANGED auditing
        BY <3>1
      <4> QED
        BY <2>1, <3>1, <4>1, CasesEarned, CallsEarned, ScoringEarned, EndCaseEarned, RecordEarned
        DEF EvalStep
    <3>2. CASE AuditTask(p) /\ UNCHANGED <<rates, grade>>
      BY <2>1, <3>2, AuditEarned
    <3>3. CASE ProbeStep(p)
      BY <2>1, <3>3, ProbeEarned
    <3> QED
      BY <1>2, <3>1, <3>2, <3>3 DEF Step
  <2>3. ASSUME NEW q \in Process PROVE CallInv(q)' /\ ScoresInv(q)' /\ ResultsInv(q)' /\ MarksInv(q)'
    <3>1. CASE q = p
      BY <2>2, <3>1 DEF OwnKept
    <3>2. CASE q # p
      BY <2>1, <3>2, OthersEarned DEF EarnedInv
    <3> QED
      BY <3>1, <3>2
  <2> QED
    BY <1>1, <2>2, <2>3 DEF EarnedInv
<1>3. CASE UNCHANGED all
  <2>1. Grows /\ \A q \in Process : Same(q)
    BY <1>3 DEF Grows, Same, all, vars, judging, running, file, auditing
  <2>2. rows' = rows /\ lines' = lines
    BY <1>3 DEF all, vars, judging, file
  <2>3. RowsInv' /\ LinesInv'
    BY <2>1, <2>2, RowsKept, LinesKept DEF EarnedInv
  <2>4. ASSUME NEW q \in Process PROVE CallInv(q)' /\ ScoresInv(q)' /\ ResultsInv(q)' /\ MarksInv(q)'
    BY <2>1, OthersEarned DEF EarnedInv
  <2> QED
    BY <1>1, <2>3, <2>4 DEF EarnedInv
<1> QED
  BY <1>2, <1>3 DEF Next, Finished

\* Whatever other processes judge, cache, fail at or append meanwhile: every
\* entry of the history that can be loaded is the record of one whole run, and
\* every score in it, or of an audit, is one that the model it is put down to gave
\* to that very text (runner.py evaluate_case, judge_audit.py, llm_cache.py).
THEOREM EarnedTheorem == Spec => []ScoresEarned
<1>1. EarnedInv => ScoresEarned
  <2> SUFFICES ASSUME EarnedInv PROVE ScoresEarned
    OBVIOUS
  <2>1. HistoryEarned
    BY DEF HistoryEarned, History, EarnedInv, LinesInv, EntryEarned
  <2> QED
    BY <2>1 DEF ScoresEarned, EarnedInv, MarksInv
<1> QED
  BY <1>1, EarnedInit, EarnedNext, PTL DEF Spec

-----------------------------------------------------------------------------
\* What a command with the cache pays for

\* Nothing that was stored when p began is asked of the model.
StoredInv(p) ==
    /\ stored[p] \subseteq DOMAIN rows
    /\ call[p].state = "asked" /\ call[p].keep => call[p].key \notin stored[p]
    /\ ~repaid[p]

LEMMA StoredInit == Init => \A p \in Process : StoredInv(p)
<1> SUFFICES ASSUME Init, NEW p \in Process PROVE StoredInv(p)
  OBVIOUS
<1>1. stored[p] = {} /\ call[p] = NoCall /\ repaid[p] = FALSE
  BY DEF Init, AuditInit, EvalInit, JudgeInit
<1>2. call[p].state # "asked"
  BY <1>1 DEF NoCall
<1> QED
  BY <1>1, <1>2 DEF StoredInv

LEMMA StoredNext ==
    ASSUME EarnedInv, Grows, NEW p \in Process, Step(p), StoredInv(p)
    PROVE  StoredInv(p)'
<1> USE DEF Kept
<1>1. ASSUME stored'[p] = stored[p], repaid'[p] = repaid[p],
             call'[p].state # "asked" \/ call'[p] = call[p]
      PROVE  StoredInv(p)'
  BY <1>1 DEF StoredInv, Grows
<1>2. ASSUME Start(p) \/ StartProbe(p) PROVE StoredInv(p)'
  <2>1. /\ stored'[p] = DOMAIN rows /\ repaid'[p] = repaid[p] /\ call'[p] = call[p] /\ pc[p] = "idle"
        /\ rows' = rows
    BY <1>2 DEF Start, StartProbe, EarnedInv
  <2>2. call[p].state = "none" /\ "none" # "asked"
    BY <2>1, Quiet DEF EarnedInv, Doing
  <2> QED
    BY <2>1, <2>2 DEF StoredInv
<1>3. ASSUME NEW subject, Ask(p, subject) PROVE StoredInv(p)'
  <2>1. stored'[p] = stored[p] /\ repaid'[p] = repaid[p] /\ rows' = rows
    BY <1>3 DEF Ask
  <2>2. CASE enabled[p] /\ Cached(Key(model[p], subject))
    <3>1. call'[p].state # "asked"
      <4>1. "scored" # "asked"
        OBVIOUS
      <4> QED
        BY <1>3, <2>2, <4>1 DEF Ask, EarnedInv
    <3> QED
      BY <1>1, <2>1, <3>1
  <2>3. CASE ~(enabled[p] /\ Cached(Key(model[p], subject)))
    <3>1. call'[p].keep = enabled[p] /\ call'[p].key = Key(model[p], subject)
      BY <1>3, <2>3 DEF Ask, EarnedInv, Key
    <3> QED
      BY <2>1, <2>3, <3>1 DEF StoredInv, Cached
  <2> QED
    BY <2>2, <2>3
<1>4. ASSUME JudgeReplies(p) PROVE StoredInv(p)'
  <2>1. /\ stored'[p] = stored[p] /\ repaid'[p] = (repaid[p] \/ (call[p].keep /\ call[p].key \in stored[p]))
        /\ call[p].state = "asked"
    BY <1>4 DEF JudgeReplies, Replies, EarnedInv
  <2>2. call'[p].state = "scored" /\ "scored" # "asked"
    <3>1. PICK reply : call' = [call EXCEPT ![p].state = "scored", ![p].score = Parse(reply), ![p].paid = TRUE]
      BY <1>4 DEF JudgeReplies, Replies
    <3>2. call'[p] = [call[p] EXCEPT !.state = "scored", !.score = Parse(reply), !.paid = TRUE]
      BY <3>1 DEF EarnedInv
    <3> QED
      BY <3>2 DEF EarnedInv, CallInv
  <2>3. ~(call[p].keep /\ call[p].key \in stored[p]) /\ ~repaid[p]
    BY <2>1 DEF StoredInv
  <2>4. ~repaid'[p]
    BY <2>1, <2>3
  <2> QED
    BY <2>1, <2>2, <2>4 DEF StoredInv, Grows
<1>5. ASSUME JudgeFails(p) PROVE StoredInv(p)'
  <2>1. stored'[p] = stored[p] /\ repaid'[p] = repaid[p] /\ call'[p] = [call[p] EXCEPT !.state = "raised"]
    BY <1>5 DEF JudgeFails, JudgeRaises, EarnedInv
  <2>2. call'[p].state # "asked"
    <3>1. "raised" # "asked"
      OBVIOUS
    <3> QED
      BY <2>1, <3>1 DEF EarnedInv, CallInv
  <2> QED
    BY <1>1, <2>1, <2>2
<1>6. ASSUME UNCHANGED <<stored, repaid>>, call'[p] \in {NoCall, call[p]} PROVE StoredInv(p)'
  <2>1. NoCall.state # "asked"
    BY DEF NoCall
  <2> QED
    BY <1>1, <1>6, <2>1
<1>7. CASE (EvalStep(p) \/ Crash(p)) /\ UNCHANGED <<auditing, rates, grade>>
  <2>1. CASE AskJudge(p)
    BY <1>3, <2>1 DEF AskJudge
  <2>2. CASE Load(p) \/ Generate(p) \/ GenerateRaises(p) \/ SkipJudge(p)
    BY <1>6, <2>2 DEF Load, Generate, GenerateRaises, SkipJudge, judging
  <2>3. CASE TakeScore(p) \/ JudgeRaised(p) \/ Crash(p)
    BY <1>6, <2>3 DEF TakeScore, JudgeRaised, Crash, Returned, EarnedInv
  <2>4. CASE EndCase(p) \/ FinishRun(p) \/ FinishUnrecorded(p) \/ RecordFails(p)
    BY <1>6, <2>4 DEF EndCase, FinishRun, FinishUnrecorded, RecordFails, judging
  <2> QED
    BY <1>2, <1>4, <1>5, <1>7, <2>1, <2>2, <2>3, <2>4 DEF EvalStep
<1>8. CASE AuditTask(p) /\ UNCHANGED <<rates, grade>>
  <2>1. CASE AskForMark(p)
    BY <1>3, <2>1 DEF AskForMark
  <2>2. CASE ~AskForMark(p)
    BY <1>6, <1>8, <2>2 DEF AuditTask, CacheOff, Restore, SetModel, TakeMark, AuditFails, EndAudit,
                            Returned, EarnedInv
  <2> QED
    BY <2>1, <2>2
<1>9. CASE ProbeStep(p)
  <2>1. CASE MakePlan(p) \/ Report(p) \/ ProbeRaises(p)
    BY <1>6, <2>1 DEF MakePlan, Report, ProbeRaises, EndAudit, judging, EarnedInv
  <2>2. CASE GenerateCited(p) \/ GenerateNoisy(p)
    BY <1>6, <2>2 DEF GenerateCited, GenerateNoisy, Expand, judging
  <2>3. CASE Abstain(p) \/ Poison(p) \/ PoisonFacts(p)
    BY <1>6, <2>3 DEF Abstain, Poison, PoisonFacts, Rated, judging
  <2> QED
    BY <1>2, <1>9, <2>1, <2>2, <2>3 DEF ProbeStep
<1> QED
  BY <1>7, <1>8, <1>9 DEF Step

-----------------------------------------------------------------------------
\* What an audit's plan is made of

LEMMA Flattened ==
    ASSUME NEW T, NEW s \in Seq(Seq(T))
    PROVE  FlattenSeq(s) \in Seq(T)
<1> DEFINE N == Len(s)
           Is(f) == [i \in 1 .. N |-> IF i = 1 THEN s[i] ELSE f[i - 1] \o s[i]]
           Z == Seq(T)
           G == [n \in 1 .. N |-> [x \in Z |-> IF n = 1 THEN s[n] ELSE x \o s[n]]]
           f == CHOOSE f : f = Is(f)
<1>1. N \in Nat /\ << >> \in Z /\ \A n \in 1 .. N : s[n] \in Z
  OBVIOUS
<1>2. CASE N = 0
  <2>1. FlattenSeq(s) = s
    BY <1>2 DEF FlattenSeq
  <2>2. s \in Seq(T)
    BY <1>2
  <2> QED
    BY <2>1, <2>2
<1>3. CASE N # 0
  <2>1. Closed(G, N, Z)
    <3>1. ASSUME NEW n \in 1 .. N, NEW x \in Z PROVE (IF n = 1 THEN s[n] ELSE x \o s[n]) \in Z
      <4>1. s[n] \in Z
        BY <1>1
      <4> QED
        BY <4>1
    <3> HIDE DEF Z
    <3> QED
      BY <3>1 DEF Closed
  <2>2. PICK g \in [0 .. N -> Z] : Solves(g, G, N, << >>)
    <3> HIDE DEF G, N, Z
    <3> QED
      BY <1>1, <2>1, Recursion
  <2> DEFINE h == [i \in 1 .. N |-> g[i]]
  <2>3. \A i \in 1 .. N : g[i] = IF i = 1 THEN s[i] ELSE g[i - 1] \o s[i]
    <3> HIDE DEF Z
    <3>1. \A i \in 1 .. N : g[i - 1] \in Z
      <4>1. \A i \in 1 .. N : i - 1 \in 0 .. N
        BY <1>1
      <4>2. \A i \in 0 .. N : g[i] \in Z
        BY <2>2
      <4> HIDE DEF N
      <4> QED
        BY <4>1, <4>2
    <3>2. \A i \in 1 .. N : g[i] = G[i][g[i - 1]]
      BY <2>2 DEF Solves
    <3> QED
      BY <3>1, <3>2
  <2>4. h = Is(h)
    <3>1. \A i \in 1 .. N : i # 1 => i - 1 \in 1 .. N
      BY <1>1
    <3>2. \A i \in 1 .. N : h[i] = IF i = 1 THEN s[i] ELSE h[i - 1] \o s[i]
      BY <2>3, <3>1
    <3> QED
      BY <3>2
  <2>5. f = Is(f)
    <3> HIDE DEF h
    <3> QED
      BY <2>4
  <2>6. FlattenSeq(s) = f[N]
    BY <1>3 DEF FlattenSeq
  <2> HIDE DEF f
  <2>7. \A i \in 1 .. N : f[i] = IF i = 1 THEN s[i] ELSE f[i - 1] \o s[i]
    BY <2>5
  <2> DEFINE R == {m \in Nat : m + 1 <= N => f[m + 1] \in Z}
  <2>8. 0 \in R
    <3>1. 1 \in 1 .. N
      BY <1>1, <1>3
    <3>2. f[1] = s[1] /\ s[1] \in Z
      BY <1>1, <2>7, <3>1
    <3> HIDE DEF Z
    <3> QED
      BY <3>2
  <2>9. ASSUME NEW m \in Nat, m \in R PROVE m + 1 \in R
    <3> SUFFICES ASSUME (m + 1) + 1 <= N PROVE f[(m + 1) + 1] \in Z
      OBVIOUS
    <3>1. (m + 1) + 1 \in 1 .. N /\ (m + 1) + 1 # 1 /\ ((m + 1) + 1) - 1 = m + 1 /\ m + 1 <= N
      BY <1>1
    <3>2. f[(m + 1) + 1] = f[m + 1] \o s[(m + 1) + 1]
      BY <2>7, <3>1
    <3>3. f[m + 1] \in Z /\ s[(m + 1) + 1] \in Z
      BY <1>1, <2>9, <3>1
    <3> HIDE DEF N
    <3> QED
      BY <3>2, <3>3
  <2>10. Nat \subseteq R
    <3> HIDE DEF R
    <3> QED
      BY <2>8, <2>9, Induction
  <2>11. N - 1 \in Nat /\ (N - 1) + 1 = N
    BY <1>1, <1>3
  <2>12. f[N] \in Z
    <3> HIDE DEF Z, N
    <3> QED
      BY <2>10, <2>11
  <2> QED
    BY <2>6, <2>12
<1> QED
  BY <1>2, <1>3

\* A sequence of tasks, all of some kinds and for some uses.
Within(s, D, U) == IsSeq(s) /\ \A k \in DOMAIN s : s[k].do \in D /\ s[k].use \in U

LEMMA WithinNone ==
    ASSUME NEW D, NEW U
    PROVE  Within(<< >>, D, U)
<1> DEFINE s == << >>
<1>1. s \in Seq({})
  OBVIOUS
<1> HIDE DEF s
<1>2. IsSeq(s) /\ DOMAIN s = {}
  BY <1>1, NoElements
<1>3. Within(s, D, U)
  BY <1>2 DEF Within
<1> QED
  BY <1>3 DEF s

LEMMA WithinOne ==
    ASSUME NEW D, NEW U, NEW t, t.do \in D, t.use \in U
    PROVE  Within(<<t>>, D, U) /\ Len(<<t>>) = 1
<1> DEFINE s == <<t>>
<1>1. s \in Seq({t}) /\ Len(s) = 1 /\ DOMAIN s = {1} /\ s[1] = t
  OBVIOUS
<1> HIDE DEF s
<1>2. IsSeq(s)
  BY <1>1, SomeSeq
<1>3. Within(s, D, U) /\ Len(s) = 1
  BY <1>1, <1>2 DEF Within
<1> QED
  BY <1>3 DEF s

LEMMA WithinListed ==
    ASSUME NEW s, NEW n \in Nat, s = [k \in 1 .. n |-> s[k]], NEW D, NEW U,
           \A k \in 1 .. n : s[k].do \in D /\ s[k].use \in U
    PROVE  Within(s, D, U)
<1>1. IsSeq(s) /\ DOMAIN s = 1 .. n
  BY Listed
<1> QED
  BY <1>1 DEF Within

LEMMA WithinMore ==
    ASSUME NEW s, NEW D, NEW U, Within(s, D, U), NEW DD, NEW UU, D \subseteq DD, U \subseteq UU
    PROVE  Within(s, DD, UU)
  BY DEF Within

LEMMA WithinBoth ==
    ASSUME NEW D, NEW U, NEW s, Within(s, D, U), NEW t, Within(t, D, U)
    PROVE  Within(s \o t, D, U)
<1>1. IsSeq(s) /\ IsSeq(t)
  BY DEF Within
<1>2. /\ DOMAIN s = 1 .. Len(s) /\ Len(s) \in Nat
      /\ DOMAIN t = 1 .. Len(t) /\ Len(t) \in Nat
  BY <1>1, SeqFacts
<1>3. /\ IsSeq(s \o t) /\ DOMAIN (s \o t) = 1 .. Len(s) + Len(t)
      /\ \A k \in 1 .. Len(s) : (s \o t)[k] = s[k]
      /\ \A k \in 1 .. Len(s) + Len(t) : k > Len(s) => (s \o t)[k] = t[k - Len(s)]
  BY <1>1, ConcatFacts
<1> DEFINE u == s \o t
<1> HIDE DEF u
<1>4. ASSUME NEW k \in DOMAIN u PROVE u[k].do \in D /\ u[k].use \in U
  <2>1. k \in 1 .. Len(s) + Len(t)
    BY <1>3 DEF u
  <2>2. CASE k \in 1 .. Len(s)
    BY <1>2, <1>3, <2>2 DEF u, Within
  <2>3. CASE k \notin 1 .. Len(s)
    <3>1. k > Len(s) /\ k - Len(s) \in 1 .. Len(t)
      BY <1>2, <2>1, <2>3
    <3>2. u[k] = t[k - Len(s)]
      BY <1>3, <2>1, <3>1 DEF u
    <3> QED
      BY <1>2, <3>1, <3>2 DEF Within
  <2> QED
    BY <2>2, <2>3
<1>5. IsSeq(u)
  BY <1>3 DEF u
<1> QED
  BY <1>4, <1>5 DEF Within, u

LEMMA WithinFlat ==
    ASSUME NEW D, NEW U, NEW s, NEW n \in Nat, s = [k \in 1 .. n |-> s[k]],
           \A k \in 1 .. n : Within(s[k], D, U)
    PROVE  Within(FlattenSeq(s), D, U)
<1> DEFINE T == UNION {Values(s[k]) : k \in 1 .. n}
<1>1. \A t \in T : t.do \in D /\ t.use \in U
  BY DEF Within, Values
<1>2. \A k \in 1 .. n : s[k] \in Seq(T)
  <2> SUFFICES ASSUME NEW k \in 1 .. n PROVE s[k] \in Seq(T)
    OBVIOUS
  <2>1. s[k] \in Seq(Values(s[k])) /\ Values(s[k]) \subseteq T
    BY DEF Within, IsSeq
  <2> DEFINE V == Values(s[k])
             x == s[k]
  <2> HIDE DEF T, V, x
  <2>2. x \in Seq(V) /\ V \subseteq T
    BY <2>1 DEF V, x
  <2>3. x \in Seq(T)
    BY <2>2
  <2> QED
    BY <2>3 DEF x
<1> DEFINE Z == Seq(T)
<1>3. s \in Seq(Z)
  <2> HIDE DEF T, Z
  <2>1. \A k \in 1 .. n : s[k] \in Z
    BY <1>2 DEF Z
  <2> QED
    BY <2>1
<1>4. FlattenSeq(s) \in Seq(T)
  <2> HIDE DEF T
  <2> QED
    BY <1>3, Flattened
<1> DEFINE u == FlattenSeq(s)
<1> HIDE DEF u
<1>5. IsSeq(u)
  <2> HIDE DEF T
  <2> QED
    BY <1>4, SomeSeq DEF u
<1>6. \A k \in DOMAIN u : u[k] \in T
  <2> HIDE DEF T
  <2> QED
    BY <1>4 DEF u
<1> QED
  BY <1>1, <1>5, <1>6 DEF Within, u

LEMMA AmongSeq ==
    ASSUME NEW T, NEW s \in Seq(T), NEW S
    PROVE  Among(s, S) \in Seq(T)
<1>1. PICK f \in [0 .. Len(s) -> Seq(T)] : Among(s, S) = f[Len(s)]
  BY AmongSteps
<1>2. Len(s) \in 0 .. Len(s)
  OBVIOUS
<1> QED
  BY <1>1, <1>2

LEMMA TaskParts ==
    ASSUME NEW use, NEW metric, NEW case, NEW text, NEW dress
    PROVE  /\ JudgeTask(use, metric, case, text, dress).do = "judge"
           /\ JudgeTask(use, metric, case, text, dress).use = use
           /\ Grounded(use, case, text, dress).do = "judge"
           /\ Grounded(use, case, text, dress).use = use
           /\ Mark(use).do = use /\ Mark(use).use = "none"
           /\ UseModel(use).do = "model" /\ UseModel(use).use = use
  BY DEF JudgeTask, Mark, UseModel, Grounded

Judges == {"judge", "raise"}
AuditUses == {"none", "ceiling", "boundary", "discrimination", "numeric", "letter", "right", "wrong"}

\* One score for each of some answers.
Scored1(use, metric, cases, answers, dress) ==
    [k \in DOMAIN cases |-> JudgeTask(use, metric, cases[k], answers[k], dress)]

LEMMA ScoredWithin ==
    ASSUME NEW use \in AuditUses, NEW metric, NEW cases, IsSeq(cases), NEW answers, NEW dress
    PROVE  Within(Scored1(use, metric, cases, answers, dress), Judges, AuditUses)
<1> DEFINE s == Scored1(use, metric, cases, answers, dress)
<1>1. DOMAIN cases = 1 .. Len(cases) /\ Len(cases) \in Nat
  BY SeqFacts
<1>2. s = [k \in 1 .. Len(cases) |-> s[k]]
  BY <1>1 DEF Scored1
<1>3. \A k \in 1 .. Len(cases) : s[k].do \in Judges /\ s[k].use \in AuditUses
  <2> SUFFICES ASSUME NEW k \in 1 .. Len(cases) PROVE s[k].do \in Judges /\ s[k].use \in AuditUses
    OBVIOUS
  <2>1. s[k] = JudgeTask(use, metric, cases[k], answers[k], dress)
    BY <1>1 DEF Scored1
  <2>2. s[k].do = "judge" /\ s[k].use = use
    BY <2>1, TaskParts
  <2> QED
    BY <2>2 DEF Judges
<1> HIDE DEF s
<1> QED
  BY <1>1, <1>2, <1>3, WithinListed DEF s

\* One metric of a probe.
Dressed(probe, metric, cases) ==
    [d \in DOMAIN Dresses(probe) |->
        Scored1(probe, metric, cases, [k \in DOMAIN cases |-> Base(probe, cases, k)], Dresses(probe)[d])]

LEMMA DressedWithin ==
    ASSUME NEW probe \in AuditUses, NEW metric, NEW cases, IsSeq(cases)
    PROVE  Within(FlattenSeq(Dressed(probe, metric, cases)), Judges, AuditUses)
<1>1. IsSeq(Dresses(probe))
  <2>1. IsSeq(Perturbations)
    BY AuditAssumption, SomeSeq
  <2> DEFINE a == <<"plain">>
             b == IF probe = "ceiling" THEN << >> ELSE <<"padded">>
  <2>2. a \in Seq({"plain"}) /\ b \in Seq({"padded"})
    <3>1. <<"plain">> \in Seq({"plain"})
      OBVIOUS
    <3>2. << >> \in Seq({"padded"})
      OBVIOUS
    <3>3. <<"padded">> \in Seq({"padded"})
      OBVIOUS
    <3> DEFINE Z == Seq({"padded"})
    <3>4. b \in Z
      <4>1. CASE probe = "ceiling"
        BY <3>2, <4>1
      <4>2. CASE probe # "ceiling"
        BY <3>3, <4>2
      <4> QED
        BY <4>1, <4>2
    <3> QED
      BY <3>1, <3>4
  <2>3. Dresses(probe) = a \o Perturbations \o b
    BY DEF Dresses
  <2> HIDE DEF a, b
  <2>4. IsSeq(a) /\ IsSeq(b)
    BY <2>2, SomeSeq
  <2>5. IsSeq(a \o Perturbations)
    BY <2>1, <2>4, ConcatFacts
  <2>6. IsSeq((a \o Perturbations) \o b)
    BY <2>4, <2>5, ConcatFacts
  <2> QED
    BY <2>3, <2>6
<1> DEFINE n == Len(Dresses(probe))
           s == Dressed(probe, metric, cases)
<1>2. DOMAIN Dresses(probe) = 1 .. n /\ n \in Nat
  BY <1>1, SeqFacts
<1> HIDE DEF n
<1>3. s = [d \in 1 .. n |-> s[d]]
  BY <1>2 DEF Dressed
<1>4. \A d \in 1 .. n : Within(s[d], Judges, AuditUses)
  <2> SUFFICES ASSUME NEW d \in 1 .. n PROVE Within(s[d], Judges, AuditUses)
    OBVIOUS
  <2> DEFINE answers == [k \in DOMAIN cases |-> Base(probe, cases, k)]
             dress == Dresses(probe)[d]
  <2>1. s[d] = Scored1(probe, metric, cases, answers, dress)
    BY <1>2 DEF Dressed
  <2> HIDE DEF answers, dress
  <2> QED
    BY <2>1, ScoredWithin
<1> HIDE DEF s
<1> QED
  BY <1>2, <1>3, <1>4, WithinFlat DEF s

LEMMA ProbeWithin ==
    ASSUME NEW probe \in AuditUses, NEW cases, IsSeq(cases)
    PROVE  Within(Probe(probe, cases), Judges, AuditUses)
<1>1. CASE probe = "discrimination" /\ Len(cases) < 2
  <2>1. Probe(probe, cases) = <<Mark("raise")>>
    BY <1>1 DEF Probe
  <2>2. Mark("raise").do \in Judges /\ Mark("raise").use \in AuditUses
    BY DEF Mark, Judges, AuditUses
  <2> QED
    BY <2>1, <2>2, WithinOne
<1>2. CASE ~(probe = "discrimination" /\ Len(cases) < 2)
  <2> DEFINE s == [m \in DOMAIN ProbeMetrics(probe) |->
                      FlattenSeq(Dressed(probe, ProbeMetrics(probe)[m], cases))]
  <2>1. Probe(probe, cases) = FlattenSeq(s)
    BY <1>2 DEF Probe, Dressed, Scored1, Scoring
  <2>2. PICK n \in Nat : DOMAIN ProbeMetrics(probe) = 1 .. n
    <3>1. DOMAIN ProbeMetrics(probe) = 1 .. 1 \/ DOMAIN ProbeMetrics(probe) = 1 .. 2
      BY DEF ProbeMetrics
    <3> QED
      BY <3>1
  <2>3. s = [m \in 1 .. n |-> s[m]]
    BY <2>2
  <2>4. \A m \in 1 .. n : Within(s[m], Judges, AuditUses)
    <3> SUFFICES ASSUME NEW m \in 1 .. n PROVE Within(s[m], Judges, AuditUses)
      OBVIOUS
    <3> DEFINE metric == ProbeMetrics(probe)[m]
    <3>1. s[m] = FlattenSeq(Dressed(probe, metric, cases))
      BY <2>2
    <3> HIDE DEF metric, s
    <3> QED
      BY <3>1, DressedWithin
  <2> HIDE DEF s
  <2> QED
    BY <2>1, <2>3, <2>4, WithinFlat
<1> QED
  BY <1>1, <1>2

\* The parts of an audit before and after its re-test.
Probed(probes, cases) == FlattenSeq([n \in DOMAIN probes |-> Probe(probes[n], cases)])

LEMMA ProbedWithin ==
    ASSUME NEW probes \in Seq({"ceiling", "boundary", "discrimination"}), NEW cases, IsSeq(cases)
    PROVE  Within(Probed(probes, cases), Judges, AuditUses)
<1> DEFINE s == [n \in DOMAIN probes |-> Probe(probes[n], cases)]
           N == Len(probes)
<1>1. DOMAIN probes = 1 .. N /\ N \in Nat /\ \A n \in 1 .. N : probes[n] \in AuditUses
  BY DEF AuditUses
<1> HIDE DEF N
<1>2. s = [n \in 1 .. N |-> s[n]]
  BY <1>1
<1>3. \A n \in 1 .. N : Within(s[n], Judges, AuditUses)
  <2> SUFFICES ASSUME NEW n \in 1 .. N PROVE Within(s[n], Judges, AuditUses)
    OBVIOUS
  <2>1. s[n] = Probe(probes[n], cases)
    BY <1>1
  <2> DEFINE x == probes[n]
  <2>2. x \in AuditUses
    BY <1>1
  <2> HIDE DEF x, s
  <2>3. Within(Probe(x, cases), Judges, AuditUses)
    BY <2>2, ProbeWithin
  <2> QED
    BY <2>1, <2>3 DEF x
<1> HIDE DEF s
<1> QED
  BY <1>1, <1>2, <1>3, WithinFlat DEF s, Probed

LEMMA RestWithin ==
    ASSUME NEW cases, IsSeq(cases)
    PROVE  /\ Within(ScaleCheck(cases), Judges, AuditUses)
           /\ Within(KappaCheck(cases), Judges, AuditUses)
<1> DEFINE half == [k \in DOMAIN cases |-> Half(cases[k])]
           whole == [k \in DOMAIN cases |-> Whole(cases[k])]
           cross == [k \in DOMAIN cases |-> CrossPaired(cases, k)]
           a == Scored1("numeric", "correctness", cases, half, "plain")
           b == Scored1("letter", "letter", cases, half, "plain")
           c == Scored1("right", "correctness", cases, whole, "plain")
           d == Scored1("wrong", "correctness", cases, cross, "plain")
           raise == <<Mark("raise")>>
<1>1. ScaleCheck(cases) = a \o b
  BY DEF ScaleCheck, Scoring, Scored1
<1>2. KappaCheck(cases) = c \o IF Len(cases) < 2 THEN raise ELSE d
  BY DEF KappaCheck, Scoring, Scored1
<1>3. "numeric" \in AuditUses /\ "letter" \in AuditUses /\ "right" \in AuditUses /\ "wrong" \in AuditUses
  BY DEF AuditUses
<1>4. Within(raise, Judges, AuditUses)
  <2>1. Mark("raise").do \in Judges /\ Mark("raise").use \in AuditUses
    BY DEF Mark, Judges, AuditUses
  <2> QED
    BY <2>1, WithinOne
<1>5. /\ Within(a, Judges, AuditUses) /\ Within(b, Judges, AuditUses)
      /\ Within(c, Judges, AuditUses) /\ Within(d, Judges, AuditUses)
  <2> HIDE DEF half, whole, cross
  <2> QED
    BY <1>3, ScoredWithin
<1> HIDE DEF a, b, c, d, raise
<1>6. Within(a \o b, Judges, AuditUses) /\ Within(c \o d, Judges, AuditUses) /\ Within(c \o raise, Judges, AuditUses)
  BY <1>4, <1>5, WithinBoth
<1> QED
  BY <1>1, <1>2, <1>6

RunScales(scales, cases) == IF scales THEN ScaleCheck(cases) ELSE << >>
RunKappa(kappa, cases) == IF kappa THEN KappaCheck(cases) ELSE << >>

LEMMA RunAuditParts ==
    ASSUME NEW probes, NEW retest, NEW scales, NEW kappa, NEW cases, IsSeq(cases)
    PROVE  /\ RunAudit(probes, retest, scales, kappa, cases) =
                 Probed(probes, cases) \o Retest(retest, cases) \o RunScales(scales, cases) \o RunKappa(kappa, cases)
           /\ Within(RunScales(scales, cases), Judges, AuditUses)
           /\ Within(RunKappa(kappa, cases), Judges, AuditUses)
<1>1. Within(RunScales(scales, cases), Judges, AuditUses)
  BY RestWithin, WithinNone DEF RunScales
<1>2. Within(RunKappa(kappa, cases), Judges, AuditUses)
  BY RestWithin, WithinNone DEF RunKappa
<1> QED
  BY <1>1, <1>2 DEF RunAudit, Probed, RunScales, RunKappa

\* Without a re-test, an audit judges with the cache as it is.
LEMMA RunAuditWithin ==
    ASSUME NEW probes \in Seq({"ceiling", "boundary", "discrimination"}), NEW retest \in Nat, retest < 2,
           NEW scales, NEW kappa, NEW cases, IsSeq(cases)
    PROVE  Within(RunAudit(probes, retest, scales, kappa, cases), Judges, AuditUses)
<1> DEFINE a == Probed(probes, cases)
           b == Retest(retest, cases)
           c == RunScales(scales, cases)
           d == RunKappa(kappa, cases)
<1>1. RunAudit(probes, retest, scales, kappa, cases) = a \o b \o c \o d
  BY RunAuditParts
<1>2. b = << >>
  BY DEF Retest
<1>3. Within(a, Judges, AuditUses) /\ Within(c, Judges, AuditUses) /\ Within(d, Judges, AuditUses)
  BY ProbedWithin, RunAuditParts
<1>4. Within(b, Judges, AuditUses)
  BY <1>2, WithinNone
<1> HIDE DEF a, b, c, d
<1>5. Within(a \o b, Judges, AuditUses)
  BY <1>3, <1>4, WithinBoth
<1>6. Within((a \o b) \o c, Judges, AuditUses)
  BY <1>3, <1>5, WithinBoth
<1>7. Within(((a \o b) \o c) \o d, Judges, AuditUses)
  BY <1>3, <1>6, WithinBoth
<1> QED
  BY <1>1, <1>7

\* A part of a plan during which the cache is off.
Framed(s, o, r, D, U, inD, inU) ==
    /\ IsSeq(s) /\ o \in Nat /\ r \in Nat /\ 0 < o /\ o < r /\ r <= Len(s)
    /\ s[o] = Mark("off") /\ s[r] = Mark("restore")
    /\ \A k \in DOMAIN s : o < k /\ k < r => s[k].do \in inD /\ s[k].use \in inU
    /\ \A k \in DOMAIN s : k < o \/ r < k => s[k].do \in D /\ s[k].use \in U

LEMMA FramedBase ==
    ASSUME NEW D, NEW U, NEW inD, NEW inU, NEW s, Within(s, inD, inU)
    PROVE  Framed(<<Mark("off")>> \o s \o <<Mark("restore")>>, 1, Len(s) + 2, D, U, inD, inU)
<1> DEFINE a == <<Mark("off")>>
           b == <<Mark("restore")>>
           t == a \o s
           u == t \o b
           n == Len(s)
<1>1. a \in Seq({Mark("off")}) /\ Len(a) = 1 /\ a[1] = Mark("off")
  OBVIOUS
<1>2. b \in Seq({Mark("restore")}) /\ Len(b) = 1 /\ b[1] = Mark("restore")
  OBVIOUS
<1> HIDE DEF a, b
<1>3. IsSeq(a) /\ IsSeq(b) /\ IsSeq(s)
  BY <1>1, <1>2, SomeSeq DEF Within
<1>4. DOMAIN s = 1 .. n /\ n \in Nat
  BY <1>3, SeqFacts
<1>5. /\ IsSeq(t) /\ Len(t) = n + 1 /\ t[1] = Mark("off")
      /\ \A k \in 1 .. n : t[k + 1] = s[k]
  <2>1. /\ IsSeq(t) /\ Len(t) = Len(a) + n
        /\ \A k \in 1 .. Len(a) : t[k] = a[k]
        /\ \A k \in 1 .. n : t[Len(a) + k] = s[k]
    BY <1>3, ConcatFacts
  <2> HIDE DEF t
  <2>2. 1 \in 1 .. Len(a)
    BY <1>1
  <2>3. \A k \in 1 .. n : Len(a) + k = k + 1
    BY <1>1, <1>4
  <2> QED
    BY <1>1, <1>4, <2>1, <2>2, <2>3
<1> HIDE DEF t
<1>6. /\ IsSeq(u) /\ Len(u) = n + 2 /\ DOMAIN u = 1 .. n + 2 /\ u[n + 2] = Mark("restore")
      /\ \A k \in 1 .. n + 1 : u[k] = t[k]
  <2>1. /\ IsSeq(u) /\ Len(u) = Len(t) + Len(b) /\ DOMAIN u = 1 .. Len(t) + Len(b)
        /\ \A k \in 1 .. Len(t) : u[k] = t[k]
        /\ \A k \in 1 .. Len(b) : u[Len(t) + k] = b[k]
    <3>1. IsSeq(t) /\ IsSeq(b)
      BY <1>3, <1>5
    <3> QED
      BY <3>1, ConcatFacts
  <2> HIDE DEF u, n
  <2>2. Len(t) + Len(b) = n + 2 /\ Len(t) + 1 = n + 2 /\ 1 \in 1 .. Len(b)
    BY <1>2, <1>4, <1>5
  <2> QED
    BY <1>2, <1>5, <2>1, <2>2
<1> HIDE DEF u, n
<1>7. u[1] = Mark("off")
  <2>1. 1 \in 1 .. n + 1
    BY <1>4
  <2> QED
    BY <1>5, <1>6, <2>1
<1>8. ASSUME NEW k \in DOMAIN u, 1 < k, k < n + 2 PROVE u[k].do \in inD /\ u[k].use \in inU
  <2>1. k \in 1 .. n + 1 /\ k - 1 \in 1 .. n /\ (k - 1) + 1 = k
    BY <1>4, <1>6, <1>8
  <2>2. u[k] = s[k - 1]
    BY <1>5, <1>6, <2>1
  <2> QED
    BY <1>4, <2>1, <2>2 DEF Within
<1>9. \A k \in DOMAIN u : ~(k < 1 \/ n + 2 < k)
  BY <1>4, <1>6
<1>10. Framed(u, 1, n + 2, D, U, inD, inU)
  BY <1>4, <1>6, <1>7, <1>8, <1>9 DEF Framed
<1> QED
  BY <1>10 DEF u, t, a, b, n

LEMMA FramedTail ==
    ASSUME NEW D, NEW U, NEW inD, NEW inU, NEW s, NEW o, NEW r, Framed(s, o, r, D, U, inD, inU),
           NEW t, Within(t, D, U)
    PROVE  Framed(s \o t, o, r, D, U, inD, inU)
<1> DEFINE u == s \o t
<1>1. IsSeq(s) /\ IsSeq(t)
  BY DEF Framed, Within
<1>2. /\ DOMAIN s = 1 .. Len(s) /\ Len(s) \in Nat /\ DOMAIN t = 1 .. Len(t) /\ Len(t) \in Nat
  BY <1>1, SeqFacts
<1>3. /\ IsSeq(u) /\ Len(u) = Len(s) + Len(t) /\ DOMAIN u = 1 .. Len(s) + Len(t)
      /\ \A k \in 1 .. Len(s) : u[k] = s[k]
      /\ \A k \in 1 .. Len(s) + Len(t) : k > Len(s) => u[k] = t[k - Len(s)]
  BY <1>1, ConcatFacts
<1> HIDE DEF u
<1>4. o \in 1 .. Len(s) /\ r \in 1 .. Len(s) /\ o \in Nat /\ r \in Nat /\ 0 < o /\ o < r /\ r <= Len(s)
  BY <1>2 DEF Framed
<1>5. u[o] = Mark("off") /\ u[r] = Mark("restore") /\ r <= Len(u)
  BY <1>2, <1>3, <1>4 DEF Framed
<1>6. ASSUME NEW k \in DOMAIN u, o < k, k < r PROVE u[k].do \in inD /\ u[k].use \in inU
  <2>1. k \in 1 .. Len(s)
    BY <1>2, <1>3, <1>4, <1>6
  <2> QED
    BY <1>2, <1>3, <1>6, <2>1 DEF Framed
<1>7. ASSUME NEW k \in DOMAIN u, k < o \/ r < k PROVE u[k].do \in D /\ u[k].use \in U
  <2>1. CASE k \in 1 .. Len(s)
    BY <1>2, <1>3, <1>7, <2>1 DEF Framed
  <2>2. CASE k \notin 1 .. Len(s)
    <3>1. k \in 1 .. Len(s) + Len(t) /\ k > Len(s) /\ k - Len(s) \in 1 .. Len(t)
      BY <1>2, <1>3, <2>2
    <3>2. u[k] = t[k - Len(s)]
      BY <1>3, <3>1
    <3> QED
      BY <1>2, <3>1, <3>2 DEF Within
  <2> QED
    BY <2>1, <2>2
<1>8. Framed(u, o, r, D, U, inD, inU)
  BY <1>3, <1>4, <1>5, <1>6, <1>7 DEF Framed
<1> QED
  BY <1>8 DEF u

LEMMA FramedHead ==
    ASSUME NEW D, NEW U, NEW inD, NEW inU, NEW s, NEW o, NEW r, Framed(s, o, r, D, U, inD, inU),
           NEW t, Within(t, D, U)
    PROVE  Framed(t \o s, Len(t) + o, Len(t) + r, D, U, inD, inU)
<1> DEFINE u == t \o s
           n == Len(t)
<1>1. IsSeq(s) /\ IsSeq(t)
  BY DEF Framed, Within
<1>2. /\ DOMAIN s = 1 .. Len(s) /\ Len(s) \in Nat /\ DOMAIN t = 1 .. n /\ n \in Nat
  BY <1>1, SeqFacts
<1>3. /\ IsSeq(u) /\ Len(u) = n + Len(s) /\ DOMAIN u = 1 .. n + Len(s)
      /\ \A k \in 1 .. n : u[k] = t[k]
      /\ \A k \in 1 .. Len(s) : u[n + k] = s[k]
  BY <1>1, ConcatFacts
<1> HIDE DEF u, n
<1>4. o \in 1 .. Len(s) /\ r \in 1 .. Len(s) /\ o \in Nat /\ r \in Nat /\ 0 < o /\ o < r /\ r <= Len(s)
  BY <1>2 DEF Framed
<1>5. u[n + o] = Mark("off") /\ u[n + r] = Mark("restore") /\ n + r <= Len(u)
  BY <1>2, <1>3, <1>4 DEF Framed
<1>6. ASSUME NEW k \in DOMAIN u, n < k
      PROVE  k - n \in DOMAIN s /\ u[k] = s[k - n]
  <2>1. k - n \in 1 .. Len(s) /\ n + (k - n) = k
    BY <1>2, <1>3, <1>6
  <2> QED
    BY <1>2, <1>3, <2>1
<1>7. ASSUME NEW k \in DOMAIN u, n + o < k, k < n + r PROVE u[k].do \in inD /\ u[k].use \in inU
  <2>1. n < k /\ o < k - n /\ k - n < r
    BY <1>2, <1>3, <1>4, <1>7
  <2> QED
    BY <1>6, <2>1 DEF Framed
<1>8. ASSUME NEW k \in DOMAIN u, k < n + o \/ n + r < k PROVE u[k].do \in D /\ u[k].use \in U
  <2>1. CASE k \in 1 .. n
    BY <1>2, <1>3, <2>1 DEF Within
  <2>2. CASE k \notin 1 .. n
    <3>1. n < k /\ (k - n < o \/ r < k - n)
      BY <1>2, <1>3, <1>4, <1>8, <2>2
    <3> QED
      BY <1>6, <3>1 DEF Framed
  <2> QED
    BY <2>1, <2>2
<1>9. Framed(u, n + o, n + r, D, U, inD, inU)
  <2>1. n + o \in Nat /\ n + r \in Nat /\ 0 < n + o /\ n + o < n + r
    BY <1>2, <1>4
  <2> QED
    BY <1>3, <1>5, <1>7, <1>8, <2>1 DEF Framed
<1> QED
  BY <1>9 DEF u, n

LEMMA RetestFramed ==
    ASSUME NEW repeats \in Nat, repeats >= 2, NEW cases, IsSeq(cases)
    PROVE  \E o, r : Framed(Retest(repeats, cases), o, r, Judges, AuditUses, {"judge"}, {"retest"})
<1> DEFINE s == [k \in DOMAIN cases |->
                    [n \in 1 .. repeats |-> JudgeTask("retest", "correctness", cases[k], Half(cases[k]), "plain")]]
           D == {"judge"}
           U == {"retest"}
           N == Len(cases)
<1>1. DOMAIN cases = 1 .. N /\ N \in Nat
  BY SeqFacts
<1> HIDE DEF N
<1>2. ASSUME NEW k \in 1 .. N PROVE Within(s[k], D, U)
  <2> DEFINE x == JudgeTask("retest", "correctness", cases[k], Half(cases[k]), "plain")
             t == [n \in 1 .. repeats |-> x]
  <2>1. s[k] = t
    BY <1>1
  <2>2. x.do \in D /\ x.use \in U
    BY TaskParts
  <2> HIDE DEF x, D, U
  <2>3. t = [n \in 1 .. repeats |-> t[n]] /\ \A n \in 1 .. repeats : t[n] = x
    OBVIOUS
  <2> HIDE DEF t, s
  <2>4. \A n \in 1 .. repeats : t[n].do \in D /\ t[n].use \in U
    BY <2>2, <2>3
  <2>5. Within(t, D, U)
    BY <2>3, <2>4, WithinListed
  <2> QED
    BY <2>1, <2>5
<1>3. s = [k \in 1 .. N |-> s[k]]
  BY <1>1
<1>4. Retest(repeats, cases) = <<Mark("off")>> \o FlattenSeq(s) \o <<Mark("restore")>>
  BY DEF Retest
<1> HIDE DEF s, D, U
<1>5. Within(FlattenSeq(s), D, U)
  BY <1>1, <1>2, <1>3, WithinFlat
<1>6. Framed(Retest(repeats, cases), 1, Len(FlattenSeq(s)) + 2, Judges, AuditUses, D, U)
  BY <1>4, <1>5, FramedBase
<1> QED
  BY <1>6 DEF D, U

\* With a re-test, the cache is off for the re-test and for nothing else.
LEMMA RunAuditFramed ==
    ASSUME NEW probes \in Seq({"ceiling", "boundary", "discrimination"}), NEW retest \in Nat, retest >= 2,
           NEW scales, NEW kappa, NEW cases, IsSeq(cases)
    PROVE  \E o, r : Framed(RunAudit(probes, retest, scales, kappa, cases), o, r,
                            Judges, AuditUses, {"judge"}, {"retest"})
<1> DEFINE a == Probed(probes, cases)
           b == Retest(retest, cases)
           c == RunScales(scales, cases)
           d == RunKappa(kappa, cases)
           D == {"judge"}
           U == {"retest"}
<1>1. RunAudit(probes, retest, scales, kappa, cases) = a \o b \o c \o d
  BY RunAuditParts
<1>2. PICK o, r : Framed(b, o, r, Judges, AuditUses, D, U)
  BY RetestFramed
<1>3. Within(a, Judges, AuditUses) /\ Within(c, Judges, AuditUses) /\ Within(d, Judges, AuditUses)
  BY ProbedWithin, RunAuditParts
<1> HIDE DEF a, b, c, d, D, U
<1>4. Framed(a \o b, Len(a) + o, Len(a) + r, Judges, AuditUses, D, U)
  BY <1>2, <1>3, FramedHead
<1>5. Framed((a \o b) \o c, Len(a) + o, Len(a) + r, Judges, AuditUses, D, U)
  BY <1>3, <1>4, FramedTail
<1>6. Framed(((a \o b) \o c) \o d, Len(a) + o, Len(a) + r, Judges, AuditUses, D, U)
  BY <1>3, <1>5, FramedTail
<1> QED
  BY <1>1, <1>6 DEF D, U

LEMMA MatrixFramed ==
    ASSUME NEW models, IsSeq(models), NEW cases, IsSeq(cases)
    PROVE  \E o, r, U : Framed(Matrix(models, cases), o, r, {}, {}, {"judge", "raise", "model"}, U)
<1> DEFINE audit == RunAudit(AllProbes, 0, FALSE, FALSE, cases)
           s == [n \in DOMAIN models |-> <<UseModel(models[n])>> \o audit]
           D == {"judge", "raise", "model"}
           U == AuditUses \cup Values(models)
           N == Len(models)
<1>1. DOMAIN models = 1 .. N /\ N \in Nat
  BY SeqFacts
<1> HIDE DEF N
<1>2. Within(audit, D, U)
  <2>1. AllProbes \in Seq({"ceiling", "boundary", "discrimination"})
    BY DEF AllProbes
  <2>2. Within(audit, Judges, AuditUses)
    <3>1. 0 \in Nat /\ 0 < 2
      OBVIOUS
    <3> QED
      BY <2>1, <3>1, RunAuditWithin
  <2>3. Judges \subseteq D /\ AuditUses \subseteq U
    BY DEF Judges
  <2> HIDE DEF audit, D, U
  <2> QED
    BY <2>2, <2>3, WithinMore
<1> HIDE DEF audit
<1>3. ASSUME NEW n \in 1 .. N PROVE Within(s[n], D, U)
  <2> DEFINE t == UseModel(models[n])
             x == <<t>>
  <2>1. t.do \in D /\ t.use \in U
    BY <1>1, TaskParts DEF Values
  <2>2. s[n] = x \o audit
    BY <1>1
  <2> HIDE DEF t, D, U
  <2>3. Within(x, D, U)
    BY <2>1, WithinOne
  <2> HIDE DEF x, s
  <2> QED
    BY <1>2, <2>2, <2>3, WithinBoth
<1>4. s = [n \in 1 .. N |-> s[n]]
  BY <1>1
<1>5. Matrix(models, cases) = <<Mark("off")>> \o FlattenSeq(s) \o <<Mark("restore")>>
  BY DEF Matrix, audit
<1> HIDE DEF s, D, U
<1>6. Within(FlattenSeq(s), D, U)
  BY <1>1, <1>3, <1>4, WithinFlat
<1>7. Framed(Matrix(models, cases), 1, Len(FlattenSeq(s)) + 2, {}, {}, D, U)
  BY <1>5, <1>6, FramedBase
<1> QED
  BY <1>7 DEF D

Cites(s) == \A k \in DOMAIN s : s[k].do = "generate" /\ s[k].use = "citation" => s[k].subject \in DOMAIN Relevant

LEMMA CitesNone ==
    ASSUME NEW s, NEW D, NEW U, Within(s, D, U), "generate" \notin D \/ "citation" \notin U
    PROVE  Cites(s)
  BY DEF Cites, Within

LEMMA CitesBoth ==
    ASSUME NEW s, NEW t, IsSeq(s), IsSeq(t), Cites(s), Cites(t)
    PROVE  Cites(s \o t)
<1> DEFINE u == s \o t
<1>1. /\ DOMAIN s = 1 .. Len(s) /\ Len(s) \in Nat /\ DOMAIN t = 1 .. Len(t) /\ Len(t) \in Nat
  BY SeqFacts
<1>2. /\ DOMAIN u = 1 .. Len(s) + Len(t)
      /\ \A k \in 1 .. Len(s) : u[k] = s[k]
      /\ \A k \in 1 .. Len(s) + Len(t) : k > Len(s) => u[k] = t[k - Len(s)]
  BY ConcatFacts
<1> HIDE DEF u
<1>3. ASSUME NEW k \in DOMAIN u, u[k].do = "generate", u[k].use = "citation" PROVE u[k].subject \in DOMAIN Relevant
  <2>1. CASE k \in 1 .. Len(s)
    BY <1>1, <1>2, <1>3, <2>1 DEF Cites
  <2>2. CASE k \notin 1 .. Len(s)
    <3>1. k \in 1 .. Len(s) + Len(t) /\ k > Len(s) /\ k - Len(s) \in 1 .. Len(t)
      BY <1>1, <1>2, <2>2
    <3>2. u[k] = t[k - Len(s)]
      BY <1>2, <3>1
    <3> QED
      BY <1>1, <1>3, <3>1, <3>2 DEF Cites
  <2> QED
    BY <2>1, <2>2
<1> QED
  BY <1>3 DEF Cites, u

OtherDos == {"judge", "raise", "generate", "abstain", "poison", "counterfactual"}
OtherUses == AuditUses \cup {"citation", "noise", "grounded", "ungrounded", "human"}

\* One task for each case.
LEMMA EachWithin ==
    ASSUME NEW cases, IsSeq(cases), \A k \in DOMAIN cases : cases[k] \in DOMAIN Relevant
    PROVE  /\ Within(Each("generate", "citation", cases), OtherDos, OtherUses)
           /\ Cites(Each("generate", "citation", cases))
<1> DEFINE s == Each("generate", "citation", cases)
           N == Len(cases)
<1>1. DOMAIN cases = 1 .. N /\ N \in Nat
  BY SeqFacts
<1> HIDE DEF N
<1>2. \A k \in 1 .. N : s[k].do = "generate" /\ s[k].use = "citation" /\ s[k].subject = cases[k]
  BY <1>1 DEF Each
<1>3. s = [k \in 1 .. N |-> s[k]] /\ DOMAIN s = 1 .. N
  BY <1>1 DEF Each
<1> HIDE DEF s
<1>4. \A k \in 1 .. N : s[k].do \in OtherDos /\ s[k].use \in OtherUses
  BY <1>2 DEF OtherDos, OtherUses
<1>5. Within(s, OtherDos, OtherUses)
  BY <1>1, <1>3, <1>4, WithinListed
<1>6. Cites(s)
  BY <1>1, <1>2, <1>3 DEF Cites
<1> QED
  BY <1>5, <1>6 DEF s

LEMMA MarksWithin ==
    ASSUME NEW do \in {"raise", "abstain", "poison", "counterfactual"}
    PROVE  Within(<<Mark(do)>>, OtherDos, OtherUses)
<1>1. Mark(do).do \in OtherDos /\ Mark(do).use \in OtherUses
  BY DEF Mark, OtherDos, OtherUses, AuditUses
<1> QED
  BY <1>1, WithinOne

LEMMA TwoWithin ==
    ASSUME NEW D, NEW U, NEW x, NEW y, x.do \in D, x.use \in U, y.do \in D, y.use \in U
    PROVE  Within(<<x, y>>, D, U)
<1> DEFINE s == <<x, y>>
<1>1. s = [k \in 1 .. 2 |-> s[k]] /\ s[1] = x /\ s[2] = y
  OBVIOUS
<1> HIDE DEF s
<1>2. \A k \in 1 .. 2 : s[k].do \in D /\ s[k].use \in U
  <2>1. \A k \in 1 .. 2 : k = 1 \/ k = 2
    OBVIOUS
  <2> QED
    BY <1>1, <2>1
<1>3. 2 \in Nat
  OBVIOUS
<1>4. Within(s, D, U)
  BY <1>1, <1>2, <1>3, WithinListed
<1> QED
  BY <1>4 DEF s

\* Two judge tasks for each of some positions.
LEMMA PairsWithin ==
    ASSUME NEW n \in Nat, NEW x, NEW y,
           \A k \in 1 .. n : /\ x[k].do = "judge" /\ x[k].use \in {"grounded", "human"}
                             /\ y[k].do = "judge" /\ y[k].use \in {"ungrounded", "human"}
    PROVE  Within(FlattenSeq([k \in 1 .. n |-> <<x[k], y[k]>>]), {"judge"}, {"grounded", "ungrounded", "human"})
<1> DEFINE s == [k \in 1 .. n |-> <<x[k], y[k]>>]
           D == {"judge"}
           U == {"grounded", "ungrounded", "human"}
<1>1. ASSUME NEW k \in 1 .. n PROVE Within(s[k], D, U)
  <2> DEFINE a == x[k]
             b == y[k]
  <2>1. a.do \in D /\ a.use \in U /\ b.do \in D /\ b.use \in U
    OBVIOUS
  <2>2. s[k] = <<a, b>>
    OBVIOUS
  <2> HIDE DEF a, b, D, U, s
  <2> QED
    BY <2>1, <2>2, TwoWithin
<1>2. s = [k \in 1 .. n |-> s[k]]
  OBVIOUS
<1> HIDE DEF s, D, U
<1>3. Within(FlattenSeq(s), D, U)
  BY <1>1, <1>2, WithinFlat
<1> QED
  BY <1>3 DEF s, D, U

LEMMA ReferenceFreeWithin ==
    ASSUME NEW cases, IsSeq(cases)
    PROVE  Within(ReferenceFree(cases), {"judge", "raise"}, OtherUses)
<1>1. CASE Len(cases) < 2
  <2>1. ReferenceFree(cases) = <<Mark("raise")>>
    BY <1>1 DEF ReferenceFree
  <2>2. Mark("raise").do \in {"judge", "raise"} /\ Mark("raise").use \in OtherUses
    BY DEF Mark, OtherUses, AuditUses
  <2> QED
    BY <2>1, <2>2, WithinOne
<1>2. CASE ~(Len(cases) < 2)
  <2> DEFINE x == [k \in DOMAIN cases |->
                      Grounded("grounded", cases[k], {Reference[cases[k]]}, Append(Whole(cases[k]), "plain"))]
             y == [k \in DOMAIN cases |->
                      Grounded("ungrounded", cases[k], {Reference[cases[k]]}, Append(CrossPaired(cases, k), "plain"))]
             N == Len(cases)
  <2>1. DOMAIN cases = 1 .. N /\ N \in Nat
    BY SeqFacts
  <2>2. ReferenceFree(cases) = FlattenSeq([k \in 1 .. N |-> <<x[k], y[k]>>])
    BY <1>2, <2>1 DEF ReferenceFree
  <2>3. \A k \in 1 .. N : x[k].do = "judge" /\ x[k].use = "grounded" /\ y[k].do = "judge" /\ y[k].use = "ungrounded"
    BY <2>1 DEF Grounded
  <2> HIDE DEF x, y, N
  <2>4. Within(ReferenceFree(cases), {"judge"}, {"grounded", "ungrounded", "human"})
    BY <2>1, <2>2, <2>3, PairsWithin
  <2>5. {"judge"} \subseteq {"judge", "raise"} /\ {"grounded", "ungrounded", "human"} \subseteq OtherUses
    BY DEF OtherUses
  <2> QED
    BY <2>4, <2>5, WithinMore
<1> QED
  BY <1>1, <1>2

LEMMA HumanWithin ==
    ASSUME NEW cases, IsSeq(cases), NEW n \in Nat, NEW labels
    PROVE  Within(HumanTasks(LabelSample(cases, n), labels), {"judge", "raise"}, OtherUses)
<1> DEFINE m == Min({n, Len(cases)})
           x == [k \in 1 .. m |-> JudgeTask("human", "correctness", cases[k], Whole(cases[k]), "plain")]
           y == [k \in 1 .. m |-> JudgeTask("human", "correctness", cases[k], CrossPaired(cases, k), "plain")]
           items == LabelSample(cases, n)
           D == {"judge", "raise"}
<1>1. m \in Nat
  <2> DEFINE l == Len(cases)
             S == {n, l}
  <2>1. l \in Nat
    BY SeqFacts
  <2> HIDE DEF l
  <2>2. \E z \in S : \A w \in S : z <= w
    <3>1. n <= l \/ l <= n
      BY <2>1
    <3> QED
      BY <2>1, <3>1
  <2>3. Min(S) \in S
    <3> HIDE DEF S
    <3> QED
      BY <2>2 DEF Min
  <2> QED
    BY <2>1, <2>3 DEF l
<1> HIDE DEF m
<1>2. items = FlattenSeq([k \in 1 .. m |-> <<x[k], y[k]>>])
  BY DEF LabelSample, m
<1>3. \A k \in 1 .. m : x[k].do = "judge" /\ x[k].use = "human" /\ y[k].do = "judge" /\ y[k].use = "human"
  BY TaskParts
<1> HIDE DEF x, y, items
<1>4. Within(items, {"judge"}, {"grounded", "ungrounded", "human"})
  BY <1>1, <1>2, <1>3, PairsWithin
<1>5. Within(items, D, OtherUses)
  <2>1. {"judge"} \subseteq D /\ {"grounded", "ungrounded", "human"} \subseteq OtherUses
    BY DEF OtherUses
  <2> HIDE DEF D
  <2> QED
    BY <1>4, <2>1, WithinMore
<1> DEFINE all1 == [k \in DOMAIN items |-> k]
           S == {k \in DOMAIN items : Valid(labels[k])}
           labelled == Among(all1, S)
<1>6. DOMAIN items = 1 .. Len(items) /\ Len(items) \in Nat
  BY <1>5, SeqFacts DEF Within
<1>7. labelled \in Seq(DOMAIN items)
  <2> DEFINE T == DOMAIN items
  <2>1. all1 \in Seq(T)
    BY <1>6
  <2> HIDE DEF T, all1, S
  <2>2. Among(all1, S) \in Seq(T)
    BY <2>1, AmongSeq
  <2> QED
    BY <2>2 DEF T
<1>8. HumanTasks(items, labels) =
         IF labelled = << >> THEN <<Mark("raise")>> ELSE [i \in DOMAIN labelled |-> items[labelled[i]]]
  BY DEF HumanTasks, Labelled
<1> HIDE DEF labelled
<1>9. CASE labelled = << >>
  <2>1. Mark("raise").do \in D /\ Mark("raise").use \in OtherUses
    BY DEF Mark, OtherUses, AuditUses
  <2>2. Within(<<Mark("raise")>>, D, OtherUses)
    <3> HIDE DEF D
    <3> QED
      BY <2>1, WithinOne
  <2> QED
    BY <1>8, <1>9, <2>2 DEF items
<1>10. CASE labelled # << >>
  <2> DEFINE s == [i \in DOMAIN labelled |-> items[labelled[i]]]
             N == Len(labelled)
  <2>1. DOMAIN labelled = 1 .. N /\ N \in Nat /\ \A i \in 1 .. N : labelled[i] \in DOMAIN items
    BY <1>7
  <2> HIDE DEF N
  <2>2. s = [i \in 1 .. N |-> s[i]] /\ \A i \in 1 .. N : s[i] = items[labelled[i]]
    BY <2>1
  <2>3. HumanTasks(items, labels) = s
    BY <1>8, <1>10
  <2> HIDE DEF s, D
  <2>4. \A i \in 1 .. N : s[i].do \in D /\ s[i].use \in OtherUses
    BY <1>5, <2>1, <2>2 DEF Within
  <2>5. Within(s, D, OtherUses)
    BY <2>1, <2>2, <2>4, WithinListed
  <2> QED
    BY <2>3, <2>5 DEF D, items
<1> QED
  BY <1>9, <1>10

LEMMA NoiseWithin ==
    ASSUME NEW cases, IsSeq(cases)
    PROVE  Within(Noise(cases), OtherDos, {"noise"})
<1> DEFINE task(l, k) == [do |-> "generate", use |-> "noise",
                          subject |-> [case |-> cases[k], texts |-> NoisyContext(cases, k, NoiseLevels[l])]]
           s == [l \in DOMAIN NoiseLevels |-> [k \in DOMAIN cases |-> task(l, k)]]
           N == Len(NoiseLevels)
           M == Len(cases)
           U == {"noise"}
<1>1. DOMAIN NoiseLevels = 1 .. N /\ N \in Nat
  BY ProbeAssumption
<1>2. DOMAIN cases = 1 .. M /\ M \in Nat
  BY SeqFacts
<1> HIDE DEF N, M
<1>3. ASSUME NEW l \in 1 .. N PROVE Within(s[l], OtherDos, U)
  <2> DEFINE t == [k \in DOMAIN cases |-> task(l, k)]
  <2>1. s[l] = t
    BY <1>1
  <2>2. t = [k \in 1 .. M |-> t[k]] /\ \A k \in 1 .. M : t[k].do = "generate" /\ t[k].use = "noise"
    BY <1>2
  <2> HIDE DEF t, s
  <2>3. \A k \in 1 .. M : t[k].do \in OtherDos /\ t[k].use \in U
    BY <2>2 DEF OtherDos
  <2> HIDE DEF U
  <2>4. Within(t, OtherDos, U)
    BY <1>2, <2>2, <2>3, WithinListed
  <2> QED
    BY <2>1, <2>4
<1>4. s = [l \in 1 .. N |-> s[l]]
  BY <1>1
<1>5. Noise(cases) = FlattenSeq(s)
  BY DEF Noise
<1> HIDE DEF s, U
<1>6. Within(FlattenSeq(s), OtherDos, U)
  BY <1>1, <1>3, <1>4, WithinFlat
<1> QED
  BY <1>5, <1>6 DEF U

\* The plan of every other command: nothing of it touches the cache.
LEMMA OtherPlan ==
    ASSUME NEW p,
           command[p].tool \in {"citation", "security", "abstention", "noise", "reference_free", "human", "reliability"},
           command[p].tool = "human" => command[p].n \in Nat
    PROVE  Within(Plan(p), OtherDos, OtherUses) /\ Cites(Plan(p))
<1> DEFINE c == command[p]
           cases == Cases(p)
           s == Plan(p)
<1>1. IsSeq(cases) /\ \A k \in DOMAIN cases : cases[k] \in DOMAIN Relevant
  BY CasesSeq
<1>2. ASSUME NEW D, NEW U, Within(s, D, U), D \subseteq OtherDos, U \subseteq OtherUses,
             "generate" \notin D \/ "citation" \notin U
      PROVE  Within(s, OtherDos, OtherUses) /\ Cites(s)
  <2> HIDE DEF s
  <2> QED
    BY <1>2, WithinMore, CitesNone
<1>3. CASE c.tool = "citation"
  <2>1. s = Each("generate", "citation", cases)
    BY <1>3 DEF Plan
  <2> HIDE DEF s, cases
  <2> QED
    BY <1>1, <2>1, EachWithin DEF s
<1>4. CASE c.tool = "security"
  <2>1. s = <<Mark("poison"), Mark("counterfactual")>>
    BY <1>4 DEF Plan
  <2> DEFINE D == {"poison", "counterfactual"}
             U == {"none"}
             x == Mark("poison")
             y == Mark("counterfactual")
  <2>2. x.do \in D /\ x.use \in U /\ y.do \in D /\ y.use \in U
    BY DEF Mark
  <2>3. D \subseteq OtherDos /\ U \subseteq OtherUses /\ "generate" \notin D
    BY DEF OtherDos, OtherUses, AuditUses
  <2>4. s = <<x, y>>
    BY <2>1
  <2> HIDE DEF s, x, y, D, U
  <2>5. Within(s, D, U)
    BY <2>2, <2>4, TwoWithin
  <2> QED
    BY <1>2, <2>3, <2>5 DEF s
<1>5. CASE c.tool = "abstention"
  <2>1. s = <<Mark("abstain")>>
    BY <1>5 DEF Plan
  <2> DEFINE D == {"abstain"}
             U == {"none"}
             x == Mark("abstain")
  <2>2. x.do \in D /\ x.use \in U
    BY DEF Mark
  <2>3. D \subseteq OtherDos /\ U \subseteq OtherUses /\ "generate" \notin D
    BY DEF OtherDos, OtherUses, AuditUses
  <2>4. s = <<x>>
    BY <2>1
  <2> HIDE DEF s, x, D, U
  <2>5. Within(s, D, U)
    BY <2>2, <2>4, WithinOne
  <2> QED
    BY <1>2, <2>3, <2>5 DEF s
<1>6. CASE c.tool = "noise"
  <2>1. s = Noise(cases)
    BY <1>6 DEF Plan
  <2> DEFINE U == {"noise"}
  <2>2. OtherDos \subseteq OtherDos /\ U \subseteq OtherUses /\ "citation" \notin U
    BY DEF OtherUses
  <2> HIDE DEF s, cases
  <2>3. Within(s, OtherDos, U)
    BY <1>1, <2>1, NoiseWithin
  <2> HIDE DEF U
  <2> QED
    BY <1>2, <2>2, <2>3 DEF s
<1>7. CASE c.tool \in {"reference_free", "human"}
  <2> DEFINE D == {"judge", "raise"}
  <2>1. D \subseteq OtherDos /\ OtherUses \subseteq OtherUses /\ "generate" \notin D
    BY DEF OtherDos
  <2>2. Within(s, D, OtherUses)
    <3>1. CASE c.tool = "reference_free"
      <4>1. s = ReferenceFree(cases)
        BY <3>1 DEF Plan
      <4> HIDE DEF s, cases
      <4> QED
        BY <1>1, <4>1, ReferenceFreeWithin
    <3>2. CASE c.tool = "human"
      <4> DEFINE n == c.n
                 labels == c.labels
      <4>1. s = HumanTasks(LabelSample(cases, n), labels) /\ n \in Nat
        BY <3>2 DEF Plan
      <4> HIDE DEF s, cases, n, labels
      <4> QED
        BY <1>1, <4>1, HumanWithin
    <3> QED
      BY <1>7, <3>1, <3>2
  <2> HIDE DEF s, D
  <2> QED
    BY <1>2, <2>1, <2>2 DEF s
<1>8. CASE c.tool = "reliability"
  <2> DEFINE a == Each("generate", "citation", cases)
             x == Mark("abstain")
             y == Mark("poison")
             z == Mark("counterfactual")
             b == <<x, y, z>>
             d == IF c.judge THEN RunAudit(AllProbes, 0, TRUE, TRUE, cases) ELSE << >>
             D == {"abstain", "poison", "counterfactual"}
             U == {"none"}
  <2>1. s = a \o b \o d
    BY <1>8 DEF Plan
  <2>2. Within(a, OtherDos, OtherUses) /\ Cites(a)
    <3> HIDE DEF cases
    <3> QED
      BY <1>1, EachWithin
  <2>3. Within(b, D, U)
    <3>1. x.do \in D /\ x.use \in U /\ y.do \in D /\ y.use \in U /\ z.do \in D /\ z.use \in U
      BY DEF Mark
    <3>2. b = [k \in 1 .. 3 |-> b[k]] /\ b[1] = x /\ b[2] = y /\ b[3] = z /\ 3 \in Nat
      OBVIOUS
    <3> HIDE DEF x, y, z, D, U, b
    <3>3. \A k \in 1 .. 3 : b[k].do \in D /\ b[k].use \in U
      <4>1. \A k \in 1 .. 3 : k = 1 \/ k = 2 \/ k = 3
        OBVIOUS
      <4> QED
        BY <3>1, <3>2, <4>1
    <3> QED
      BY <3>2, <3>3, WithinListed
  <2>4. Within(d, Judges, AuditUses)
    <3>1. AllProbes \in Seq({"ceiling", "boundary", "discrimination"})
      BY DEF AllProbes
    <3>2. 0 \in Nat /\ 0 < 2
      OBVIOUS
    <3>3. Within(RunAudit(AllProbes, 0, TRUE, TRUE, cases), Judges, AuditUses)
      <4> HIDE DEF cases
      <4> QED
        BY <1>1, <3>1, <3>2, RunAuditWithin
    <3> QED
      BY <3>3, WithinNone
  <2>5. /\ D \subseteq OtherDos /\ U \subseteq OtherUses /\ "generate" \notin D
        /\ Judges \subseteq OtherDos /\ AuditUses \subseteq OtherUses /\ "generate" \notin Judges
    BY DEF OtherDos, OtherUses, AuditUses, Judges
  <2> HIDE DEF a, b, d, D, U, s, cases
  <2>6. Within(b, OtherDos, OtherUses) /\ Cites(b)
    BY <2>3, <2>5, WithinMore, CitesNone
  <2>7. Within(d, OtherDos, OtherUses) /\ Cites(d)
    BY <2>4, <2>5, WithinMore, CitesNone
  <2>8. Within(a \o b, OtherDos, OtherUses)
    BY <2>2, <2>6, WithinBoth
  <2>9. Cites(a \o b)
    BY <2>2, <2>6, CitesBoth DEF Within
  <2>10. Within((a \o b) \o d, OtherDos, OtherUses)
    BY <2>7, <2>8, WithinBoth
  <2>11. Cites((a \o b) \o d)
    BY <2>7, <2>8, <2>9, CitesBoth DEF Within
  <2> QED
    BY <2>1, <2>10, <2>11 DEF s
<1> QED
  BY <1>3, <1>4, <1>5, <1>6, <1>7, <1>8

-----------------------------------------------------------------------------
\* The cache is off for the re-test and the matrix, and for nothing else

Fresh(p, t) == t.use = "retest" \/ command[p].tool = "matrix"

\* What is left of the plan: o is the place of its "off" and r of its "restore",
\* counted from the next task, and 0 or less when they are past or there are none.
Bracketed(p, o, r) ==
    /\ o \in Int /\ r \in Int /\ o < r
    /\ \A k \in DOMAIN plan[p] :
          /\ plan[p][k].do = "off" <=> k = o
          /\ plan[p][k].do = "restore" <=> k = r
          /\ plan[p][k].do = "judge" => (Fresh(p, plan[p][k]) <=> (o < k /\ k < r))
          /\ plan[p][k].do = "generate" => r < 1 /\ command[p].tool # "matrix"
          /\ plan[p][k].do = "model" => command[p].tool = "matrix"

Inside(o, r) == o < 1 /\ 0 < r

\* The settings at that point.
Switched(p, o, r) ==
    /\ Inside(o, r) => ~enabled[p]
    /\ command[p].tool = "audit" /\ command[p].cached =>
          /\ model[p] = command[p].model
          /\ Inside(o, r) => saved[p] = [model |-> command[p].model, enabled |-> TRUE]
          /\ ~Inside(o, r) => enabled[p] /\ saved[p] = NoSettings

Before == {"idle", "load", "generate", "judge", "record", "plan"}

PlanInv(p) ==
    /\ pc[p] \in Running => command[p].tool \in Runs
    /\ pc[p] \in {"plan", "audit"} => command[p].tool \notin {"eval", "ablation", "none"}
    /\ pc[p] \in Before => marks[p] = << >> /\ saved[p] = NoSettings
    /\ pc[p] \in Before \ {"idle"} => enabled[p] = command[p].cached /\ model[p] = command[p].model
    /\ pc[p] = "audit" =>
          /\ IsSeq(plan[p]) /\ Cites(plan[p])
          /\ \E o, r : Bracketed(p, o, r) /\ Switched(p, o, r)

\* A plan is made.
LEMMA PlanBracketed ==
    ASSUME NEW p \in Process, command \in Scenario, command[p].tool \notin {"eval", "ablation", "none"}
    PROVE  /\ IsSeq(Plan(p)) /\ Cites(Plan(p))
           /\ \E o, r : /\ o \in Int /\ r \in Int /\ o < r /\ ~Inside(o, r)
                        /\ \A k \in DOMAIN Plan(p) :
                              /\ Plan(p)[k].do = "off" <=> k = o
                              /\ Plan(p)[k].do = "restore" <=> k = r
                              /\ Plan(p)[k].do = "judge" => (Fresh(p, Plan(p)[k]) <=> (o < k /\ k < r))
                              /\ Plan(p)[k].do = "generate" => r < 1 /\ command[p].tool # "matrix"
                              /\ Plan(p)[k].do = "model" => command[p].tool = "matrix"
<1> DEFINE s == Plan(p)
           Shape == /\ IsSeq(s) /\ Cites(s)
                    /\ \E o, r : /\ o \in Int /\ r \in Int /\ o < r /\ ~Inside(o, r)
                                 /\ \A k \in DOMAIN s :
                                       /\ s[k].do = "off" <=> k = o
                                       /\ s[k].do = "restore" <=> k = r
                                       /\ s[k].do = "judge" => (Fresh(p, s[k]) <=> (o < k /\ k < r))
                                       /\ s[k].do = "generate" => r < 1 /\ command[p].tool # "matrix"
                                       /\ s[k].do = "model" => command[p].tool = "matrix"
<1>1. command[p].tool \in {"audit", "matrix", "citation", "security", "abstention", "noise",
                           "reference_free", "human", "reliability"}
  BY ProbeAssumption DEF Runs
\* No part of the plan turns the cache off.
<1>2. ASSUME NEW D, NEW U, Within(s, D, U), D \subseteq OtherDos, U \subseteq OtherUses, Cites(s),
             command[p].tool # "matrix"
      PROVE  Shape
  <2> HIDE DEF s
  <2>1. IsSeq(s) /\ DOMAIN s = 1 .. Len(s)
    BY <1>2, SeqFacts DEF Within
  <2>2. "retest" \notin OtherUses /\ "off" \notin OtherDos /\ "restore" \notin OtherDos /\ "model" \notin OtherDos
    BY DEF OtherUses, OtherDos, AuditUses
  <2>3. \A k \in DOMAIN s : /\ s[k].do # "off" /\ s[k].do # "restore" /\ s[k].do # "model"
                            /\ ~Fresh(p, s[k])
    BY <1>2, <2>2 DEF Within, Fresh
  <2>4. \A k \in DOMAIN s : k # -1 /\ k # 0 /\ ~(-1 < k /\ k < 0)
    BY <2>1
  <2>5. -1 \in Int /\ 0 \in Int /\ -1 < 0 /\ ~Inside(-1, 0) /\ 0 < 1
    BY DEF Inside
  <2>6. \A k \in DOMAIN s :
           /\ s[k].do = "off" <=> k = -1
           /\ s[k].do = "restore" <=> k = 0
           /\ s[k].do = "judge" => (Fresh(p, s[k]) <=> (-1 < k /\ k < 0))
           /\ s[k].do = "generate" => 0 < 1 /\ command[p].tool # "matrix"
           /\ s[k].do = "model" => command[p].tool = "matrix"
    BY <1>2, <2>3, <2>4, <2>5
  <2> QED
    BY <1>2, <2>1, <2>5, <2>6
\* A part of the plan turns it off, and only that part judges anew.
<1>3. ASSUME NEW D, NEW U, NEW inD, NEW inU, NEW o, NEW r, Framed(s, o, r, D, U, inD, inU),
             D \subseteq Judges, inD \subseteq Judges \cup {"model"},
             \/ command[p].tool # "matrix" /\ U \subseteq AuditUses /\ inU \subseteq {"retest"} /\ "model" \notin inD
             \/ command[p].tool = "matrix" /\ D = {}
      PROVE  Shape
  <2> HIDE DEF s
  <2>1. IsSeq(s) /\ DOMAIN s = 1 .. Len(s) /\ Len(s) \in Nat
    BY <1>3, SeqFacts DEF Framed
  <2>2. /\ o \in Nat /\ r \in Nat /\ 0 < o /\ o < r /\ s[o] = Mark("off") /\ s[r] = Mark("restore")
        /\ o \in Int /\ r \in Int
    BY <1>3 DEF Framed
  <2>3. ~Inside(o, r)
    BY <2>2 DEF Inside
  <2>4. /\ s[o].do = "off" /\ s[r].do = "restore" /\ "off" # "restore"
        /\ "retest" \notin AuditUses
        /\ \A do \in Judges \cup {"model"} : do # "off" /\ do # "restore" /\ do # "generate"
        /\ "model" \notin Judges
    BY <2>2 DEF Mark, AuditUses, Judges
  <2>5. ASSUME NEW k \in DOMAIN s
        PROVE  /\ s[k].do = "off" <=> k = o
               /\ s[k].do = "restore" <=> k = r
               /\ s[k].do = "judge" => (Fresh(p, s[k]) <=> (o < k /\ k < r))
               /\ s[k].do # "generate"
               /\ s[k].do = "model" => command[p].tool = "matrix"
    <3>1. k = o \/ k = r \/ (o < k /\ k < r) \/ k < o \/ r < k
      BY <2>1, <2>2
    <3>2. CASE k = o \/ k = r
      <4>1. "off" # "judge" /\ "restore" # "judge" /\ "off" # "generate" /\ "restore" # "generate"
            /\ "off" # "model" /\ "restore" # "model"
        OBVIOUS
      <4> QED
        BY <2>2, <2>4, <3>2, <4>1
    <3>3. CASE o < k /\ k < r
      <4>1. s[k].do \in inD /\ s[k].use \in inU
        BY <1>3, <3>3 DEF Framed
      <4>2. s[k].do \in Judges \cup {"model"} /\ Fresh(p, s[k]) /\ (s[k].do = "model" => command[p].tool = "matrix")
        BY <1>3, <4>1 DEF Fresh
      <4>3. k # o /\ k # r
        BY <2>2, <3>3
      <4> QED
        BY <2>4, <3>3, <4>2, <4>3
    <3>4. CASE k < o \/ r < k
      <4>1. s[k].do \in D /\ s[k].use \in U
        BY <1>3, <3>4 DEF Framed
      <4>2. s[k].do \in Judges /\ ~Fresh(p, s[k])
        BY <1>3, <2>4, <4>1 DEF Fresh
      <4>3. k # o /\ k # r /\ ~(o < k /\ k < r)
        BY <2>1, <2>2, <3>4
      <4> QED
        BY <2>4, <4>2, <4>3
    <3> QED
      BY <3>1, <3>2, <3>3, <3>4
  <2>6. Cites(s)
    BY <2>5 DEF Cites
  <2> QED
    BY <2>1, <2>2, <2>3, <2>5, <2>6
<1> DEFINE cases == Cases(p)
           J == {"judge"}
           R == {"retest"}
           I == {"judge", "raise", "model"}
<1>4. IsSeq(cases)
  BY CasesSeq
<1>5. CASE command[p].tool = "audit"
  <2> DEFINE probes == command[p].probes
             retest == command[p].retest
             scales == command[p].scales
             kappa == command[p].kappa
  <2>1. s = RunAudit(probes, retest, scales, kappa, cases)
    BY <1>5 DEF Plan
  <2>2. probes \in Seq({"ceiling", "boundary", "discrimination"}) /\ retest \in Nat
    BY <1>5, AuditAssumption
  <2>3. command[p].tool # "matrix"
    BY <1>5
  <2> HIDE DEF s, cases, probes, retest, scales, kappa
  <2>4. CASE retest < 2
    <3>1. Within(s, Judges, AuditUses)
      BY <1>4, <2>1, <2>2, <2>4, RunAuditWithin
    <3>2. Judges \subseteq OtherDos /\ AuditUses \subseteq OtherUses /\ "generate" \notin Judges
      BY DEF Judges, OtherDos, OtherUses
    <3>3. Cites(s)
      BY <3>1, <3>2, CitesNone
    <3>4. Shape
      <4> HIDE DEF Shape
      <4> QED
        BY <1>2, <2>3, <3>1, <3>2, <3>3
    <3> QED
      BY <3>4 DEF s
  <2>5. CASE retest >= 2
    <3>1. PICK o, r : Framed(s, o, r, Judges, AuditUses, J, R)
      BY <1>4, <2>1, <2>2, <2>5, RunAuditFramed
    <3>2. /\ Judges \subseteq Judges /\ J \subseteq Judges \cup {"model"} /\ AuditUses \subseteq AuditUses
          /\ R \subseteq {"retest"} /\ "model" \notin J
      BY DEF Judges
    <3> HIDE DEF J, R
    <3>3. Shape
      <4> HIDE DEF Shape
      <4> QED
        BY <1>3, <2>3, <3>1, <3>2
    <3> QED
      BY <3>3 DEF s
  <2> QED
    BY <2>2, <2>4, <2>5
<1>6. CASE command[p].tool = "matrix"
  <2> DEFINE models == command[p].models
  <2>1. s = Matrix(models, cases)
    BY <1>6 DEF Plan
  <2>2. IsSeq(models)
    BY <1>6, AuditAssumption, SomeSeq
  <2> HIDE DEF s, cases, models
  <2>3. PICK o, r, U : Framed(s, o, r, {}, {}, I, U)
    BY <1>4, <2>1, <2>2, MatrixFramed
  <2>4. {} \subseteq Judges /\ I \subseteq Judges \cup {"model"}
    BY DEF Judges
  <2> HIDE DEF I
  <2>5. Shape
    <3> HIDE DEF Shape
    <3> QED
      BY <1>3, <1>6, <2>3, <2>4
  <2> QED
    BY <2>5 DEF s
<1>7. CASE command[p].tool \notin {"audit", "matrix"}
  <2>1. Within(s, OtherDos, OtherUses) /\ Cites(s)
    BY <1>1, <1>7, ProbeAssumption, OtherPlan
  <2>2. Shape
    <3> HIDE DEF Shape, s
    <3> QED
      BY <1>2, <1>7, <2>1
  <2> QED
    BY <2>2
<1> QED
  BY <1>5, <1>6, <1>7

LEMMA PlanKept ==
    ASSUME Grows, NEW q, PlanInv(q), pc'[q] = pc[q], plan'[q] = plan[q], saved'[q] = saved[q],
           marks'[q] = marks[q] \/ pc[q] = "audit", enabled'[q] = enabled[q], model'[q] = model[q]
    PROVE  PlanInv(q)'
<1>1. command' = command
  BY DEF Grows
<1>2. CASE pc[q] # "audit"
  BY <1>1, <1>2 DEF PlanInv, Before
<1>3. CASE pc[q] = "audit"
  <2>1. PICK o, r : Bracketed(q, o, r) /\ Switched(q, o, r)
    BY <1>3 DEF PlanInv
  <2>2. Bracketed(q, o, r)' /\ Switched(q, o, r)'
    BY <1>1, <2>1 DEF Bracketed, Switched, Fresh
  <2>3. IsSeq(plan[q])' /\ Cites(plan[q])'
    BY <1>3 DEF PlanInv, IsSeq, Values, Cites
  <2>4. (\E o1, r1 : Bracketed(q, o1, r1) /\ Switched(q, o1, r1))'
    BY <2>2
  <2>5. pc'[q] = "audit" /\ "audit" \notin Running /\ "audit" \notin Before
    BY <1>3 DEF Running, Before
  <2>6. command'[q].tool \notin {"eval", "ablation", "none"}
    BY <1>1, <1>3 DEF PlanInv
  <2> QED
    BY <2>3, <2>4, <2>5, <2>6 DEF PlanInv
<1> QED
  BY <1>2, <1>3

\* A command that has ended, or is still running run_eval.
LEMMA PlanApart ==
    ASSUME Grows, NEW p, PlanInv(p), pc[p] \in Running, pc'[p] \in Running \cup {"done", "failed", "dead"},
           saved'[p] = saved[p], marks'[p] = marks[p], enabled'[p] = enabled[p], model'[p] = model[p]
    PROVE  PlanInv(p)'
<1>1. command' = command
  BY DEF Grows
<1>2. /\ pc[p] \in Before /\ pc[p] # "idle" /\ pc'[p] \notin {"plan", "audit", "idle"}
  BY DEF Running, Before
<1>3. command[p].tool \in Runs /\ marks[p] = << >> /\ saved[p] = NoSettings
      /\ enabled[p] = command[p].cached /\ model[p] = command[p].model
  BY <1>2 DEF PlanInv
<1> QED
  BY <1>1, <1>2, <1>3 DEF PlanInv

LEMMA PlanOver ==
    ASSUME NEW p, pc'[p] \in {"done", "failed", "dead"}
    PROVE  PlanInv(p)'
  BY DEF PlanInv, Running, Before

\* The next task is done.
LEMMA TailBracketed ==
    ASSUME NEW p, IsSeq(plan[p]), plan[p] # << >>, Cites(plan[p]), NEW o, NEW r, Bracketed(p, o, r),
           plan'[p] = Tail(plan[p]), command' = command
    PROVE  /\ IsSeq(plan[p])' /\ Cites(plan[p])' /\ Bracketed(p, o - 1, r - 1)'
           /\ Next1(p).do = "off" <=> o = 1
           /\ Next1(p).do = "restore" <=> r = 1
           /\ Next1(p).do = "generate" => r < 1
<1> DEFINE s == plan[p]
<1>1. /\ IsSeq(Tail(s)) /\ Len(s) \in Nat \ {0} /\ DOMAIN s = 1 .. Len(s)
      /\ DOMAIN Tail(s) = 1 .. Len(s) - 1
      /\ \A k \in 1 .. Len(s) - 1 : Tail(s)[k] = s[k + 1]
      /\ Head(s) = s[1]
  BY TailFacts, SeqFacts
<1>2. o \in Int /\ r \in Int /\ o < r /\ o - 1 \in Int /\ r - 1 \in Int /\ o - 1 < r - 1
  BY DEF Bracketed
<1>3. 1 \in DOMAIN s
  BY <1>1
<1>4. /\ Next1(p).do = "off" <=> o = 1
      /\ Next1(p).do = "restore" <=> r = 1
      /\ Next1(p).do = "generate" => r < 1
  BY <1>1, <1>2, <1>3 DEF Next1, Bracketed
<1>5. ASSUME NEW k \in DOMAIN plan'[p]
      PROVE  /\ k + 1 \in DOMAIN s /\ plan'[p][k] = s[k + 1] /\ k \in Int
             /\ (k + 1 = o <=> k = o - 1) /\ (k + 1 = r <=> k = r - 1)
             /\ (o < k + 1 <=> o - 1 < k) /\ (k + 1 < r <=> k < r - 1)
             /\ (r < 1 => r - 1 < 1)
  <2>1. k \in 1 .. Len(s) - 1
    BY <1>1
  <2>2. k + 1 \in DOMAIN s /\ k \in Int
    BY <1>1, <2>1
  <2>3. plan'[p][k] = s[k + 1]
    BY <1>1, <2>1
  <2> HIDE DEF s
  <2> QED
    BY <1>2, <2>2, <2>3
<1>6. Bracketed(p, o - 1, r - 1)'
  <2>1. ASSUME NEW k \in DOMAIN plan'[p]
        PROVE  /\ plan'[p][k].do = "off" <=> k = o - 1
               /\ plan'[p][k].do = "restore" <=> k = r - 1
               /\ plan'[p][k].do = "judge" =>
                     ((plan'[p][k].use = "retest" \/ command[p].tool = "matrix") <=> (o - 1 < k /\ k < r - 1))
               /\ plan'[p][k].do = "generate" => r - 1 < 1 /\ command[p].tool # "matrix"
               /\ plan'[p][k].do = "model" => command[p].tool = "matrix"
    <3> DEFINE j == k + 1
               t == plan'[p][k]
    <3>1. j \in DOMAIN s /\ t = s[j]
      BY <1>5
    <3>2. /\ t.do = "off" <=> j = o
          /\ t.do = "restore" <=> j = r
          /\ t.do = "judge" => ((t.use = "retest" \/ command[p].tool = "matrix") <=> (o < j /\ j < r))
          /\ t.do = "generate" => r < 1 /\ command[p].tool # "matrix"
          /\ t.do = "model" => command[p].tool = "matrix"
      BY <3>1 DEF Bracketed, Fresh
    <3>3. /\ (j = o <=> k = o - 1) /\ (j = r <=> k = r - 1)
          /\ (o < j <=> o - 1 < k) /\ (j < r <=> k < r - 1) /\ (r < 1 => r - 1 < 1)
      BY <1>5
    <3> HIDE DEF j, t
    <3> QED
      BY <3>2, <3>3 DEF t
  <2> QED
    BY <1>2, <2>1 DEF Bracketed, Fresh
<1>7. IsSeq(plan[p])'
  BY <1>1 DEF IsSeq, Values
<1>8. Cites(plan[p])'
  BY <1>5 DEF Cites
<1> QED
  BY <1>4, <1>6, <1>7, <1>8

\* So far the cache was on; or off, until the "restore" that comes next.
LEMMA TailSwitched ==
    ASSUME Grows, NEW p, PlanInv(p), pc[p] = "audit", plan[p] # << >>, plan'[p] = Tail(plan[p]), pc'[p] = "audit",
           Next1(p).do \notin {"off", "restore"}, saved'[p] = saved[p], enabled'[p] = enabled[p],
           model'[p] = model[p] \/ command[p].tool = "matrix"
    PROVE  PlanInv(p)'
<1>1. command' = command
  BY DEF Grows
<1>2. PICK o, r : Bracketed(p, o, r) /\ Switched(p, o, r)
  BY DEF PlanInv
<1>3. IsSeq(plan[p]) /\ Cites(plan[p]) /\ command[p].tool \notin {"eval", "ablation", "none"}
  BY DEF PlanInv
<1>4. /\ IsSeq(plan[p])' /\ Cites(plan[p])' /\ Bracketed(p, o - 1, r - 1)'
      /\ o # 1 /\ r # 1
  BY <1>1, <1>2, <1>3, TailBracketed
<1>5. Inside(o - 1, r - 1) <=> Inside(o, r)
  BY <1>2, <1>4 DEF Inside, Bracketed
<1>6. Switched(p, o - 1, r - 1)'
  BY <1>1, <1>2, <1>5 DEF Switched
<1>7. (\E o1, r1 : Bracketed(p, o1, r1) /\ Switched(p, o1, r1))'
  BY <1>4, <1>6
<1>8. "audit" \notin Running /\ "audit" \notin Before
  BY DEF Running, Before
<1> QED
  BY <1>1, <1>3, <1>4, <1>7, <1>8 DEF PlanInv

\* The calls about one generated answer.
LEMMA CitationWithin ==
    ASSUME NEW case \in DOMAIN Relevant, NEW answer \in CitedAnswers[case]
    PROVE  Within(CitationTasks(case, answer), {"judge"}, {"citation"})
<1> DEFINE T == [text : STRING, markers : SUBSET Nat]
           cited(s) == Among([m \in DOMAIN answer.passages |-> m], answer.sentences[s].markers)
           G(s, i) == Grounded("citation", case, {answer.passages[cited(s)[i]]},
                               <<answer.sentences[s].text, "generated", "plain">>)
           q == [s \in DOMAIN answer.sentences |-> [i \in DOMAIN cited(s) |-> G(s, i)]]
           n == Len(answer.sentences)
<1>1. /\ n \in Nat /\ DOMAIN answer.sentences = 1 .. n
      /\ IsSeq(answer.passages)
  <2>1. answer.sentences \in Seq(T) /\ answer.passages \in Seq(STRING)
    BY ProbeAssumption
  <2> DEFINE sentences == answer.sentences
             passages == answer.passages
  <2> HIDE DEF T, sentences, passages
  <2>2. sentences \in Seq(T) /\ passages \in Seq(STRING)
    BY <2>1 DEF sentences, passages
  <2>3. Len(sentences) \in Nat /\ DOMAIN sentences = 1 .. Len(sentences)
    BY <2>2
  <2>4. IsSeq(passages)
    BY <2>2, SomeSeq
  <2> QED
    BY <2>3, <2>4 DEF sentences, passages
<1>2. ASSUME NEW s \in 1 .. n PROVE Within(q[s], {"judge"}, {"citation"})
  <2> DEFINE Z == cited(s)
             all1 == [m \in DOMAIN answer.passages |-> m]
             tasks == [i \in DOMAIN Z |-> G(s, i)]
  <2>1. all1 \in Seq(Nat)
    <3>1. DOMAIN answer.passages = 1 .. Len(answer.passages) /\ Len(answer.passages) \in Nat
      BY <1>1, SeqFacts
    <3> QED
      BY <3>1
  <2>2. Z \in Seq(Nat)
    <3> HIDE DEF all1
    <3> QED
      BY <2>1, AmongSeq DEF all1
  <2>3. q[s] = tasks
    BY <1>1
  <2> HIDE DEF Z
  <2>4. Len(Z) \in Nat /\ DOMAIN Z = 1 .. Len(Z)
    BY <2>2
  <2>5. \A i \in DOMAIN Z : G(s, i).do = "judge" /\ G(s, i).use = "citation"
    BY TaskParts
  <2>6. tasks = [k \in 1 .. Len(Z) |-> tasks[k]] /\ \A k \in 1 .. Len(Z) : tasks[k] = G(s, k)
    BY <2>4
  <2> HIDE DEF tasks, G, q
  <2>8. \A k \in 1 .. Len(Z) : tasks[k].do \in {"judge"} /\ tasks[k].use \in {"citation"}
    BY <2>4, <2>5, <2>6
  <2>7. Within(tasks, {"judge"}, {"citation"})
    BY <2>4, <2>6, <2>8, WithinListed
  <2> QED
    BY <2>3, <2>7
<1>3. q = [s \in 1 .. n |-> q[s]]
  BY <1>1
<1>4. CitationTasks(case, answer) = FlattenSeq(q)
  BY DEF CitationTasks
<1> HIDE DEF q, n
<1> QED
  BY <1>1, <1>2, <1>3, <1>4, WithinFlat

\* An answer is generated only after what ran without the cache.
LEMMA PlanExpanded ==
    ASSUME Grows, NEW p, PlanInv(p), Doing(p, "generate"), NEW tasks, NEW U, Within(tasks, {"judge"}, U),
           "retest" \notin U, plan'[p] = tasks \o Tail(plan[p]), pc'[p] = pc[p], saved'[p] = saved[p],
           enabled'[p] = enabled[p], model'[p] = model[p]
    PROVE  PlanInv(p)'
<1> DEFINE s == plan[p]
           t == Tail(plan[p])
           u == tasks \o t
<1>1. command' = command /\ pc[p] = "audit" /\ s # << >> /\ Next1(p).do = "generate"
  BY DEF Grows, Doing
<1>2. PICK o, r : Bracketed(p, o, r) /\ Switched(p, o, r)
  BY <1>1 DEF PlanInv
<1>3. IsSeq(s) /\ Cites(s) /\ command[p].tool \notin {"eval", "ablation", "none"}
  BY <1>1 DEF PlanInv
<1>4. /\ IsSeq(t) /\ Len(s) \in Nat \ {0} /\ Len(t) = Len(s) - 1 /\ DOMAIN t = 1 .. Len(s) - 1
      /\ \A k \in 1 .. Len(s) - 1 : t[k] = s[k + 1]
      /\ Head(s) = s[1] /\ DOMAIN s = 1 .. Len(s)
  BY <1>1, <1>3, TailFacts, SeqFacts
<1>5. 1 \in DOMAIN s /\ s[1].do = "generate"
  BY <1>1, <1>4 DEF Next1
<1>6. o \in Int /\ r \in Int /\ o < r /\ r < 1 /\ command[p].tool # "matrix"
  BY <1>2, <1>5 DEF Bracketed
<1>7. ASSUME NEW k \in DOMAIN t
      PROVE  /\ t[k].do # "off" /\ t[k].do # "restore" /\ t[k].do # "model"
             /\ t[k].do = "judge" => t[k].use # "retest"
  <2>1. k + 1 \in DOMAIN s /\ t[k] = s[k + 1] /\ k + 1 # o /\ k + 1 # r /\ ~(k + 1 < r)
    <3> HIDE DEF s, t
    <3> QED
      BY <1>4, <1>6
  <2>2. /\ s[k + 1].do = "off" <=> k + 1 = o
        /\ s[k + 1].do = "restore" <=> k + 1 = r
        /\ s[k + 1].do = "judge" => (Fresh(p, s[k + 1]) <=> (o < k + 1 /\ k + 1 < r))
        /\ s[k + 1].do = "model" => command[p].tool = "matrix"
    BY <1>2, <2>1 DEF Bracketed
  <2> HIDE DEF s, t
  <2> QED
    BY <1>6, <2>1, <2>2 DEF Fresh
<1>8. Cites(t)
  <2> SUFFICES ASSUME NEW k \in DOMAIN t, t[k].do = "generate", t[k].use = "citation"
               PROVE  t[k].subject \in DOMAIN Relevant
    BY DEF Cites
  <2> HIDE DEF s, t
  <2>1. k + 1 \in DOMAIN s /\ t[k] = s[k + 1]
    BY <1>4
  <2> QED
    BY <1>3, <2>1 DEF Cites
<1> HIDE DEF t, u
<1>9. IsSeq(tasks) /\ Cites(tasks) /\ DOMAIN tasks = 1 .. Len(tasks) /\ Len(tasks) \in Nat
  <2>1. "generate" \notin {"judge"}
    OBVIOUS
  <2> QED
    BY <2>1, CitesNone, SeqFacts DEF Within
<1>10. /\ IsSeq(u) /\ Cites(u)
       /\ DOMAIN u = 1 .. Len(tasks) + Len(t)
       /\ \A k \in 1 .. Len(tasks) : u[k] = tasks[k]
       /\ \A k \in 1 .. Len(tasks) + Len(t) : k > Len(tasks) => u[k] = t[k - Len(tasks)]
  <2>1. IsSeq(tasks) /\ IsSeq(t) /\ Cites(tasks) /\ Cites(t)
    BY <1>4, <1>8, <1>9
  <2>2. Cites(tasks \o t)
    BY <2>1, CitesBoth
  <2>3. /\ IsSeq(tasks \o t) /\ DOMAIN (tasks \o t) = 1 .. Len(tasks) + Len(t)
        /\ \A k \in 1 .. Len(tasks) : (tasks \o t)[k] = tasks[k]
        /\ \A k \in 1 .. Len(tasks) + Len(t) : k > Len(tasks) => (tasks \o t)[k] = t[k - Len(tasks)]
    BY <2>1, ConcatFacts
  <2> QED
    BY <2>2, <2>3 DEF u
<1>11. ASSUME NEW k \in DOMAIN u
       PROVE  /\ u[k].do # "off" /\ u[k].do # "restore" /\ u[k].do # "model"
              /\ u[k].do = "judge" => u[k].use # "retest"
  <2>1. CASE k \in 1 .. Len(tasks)
    <3>1. u[k].do = "judge" /\ u[k].use \in U
      BY <1>9, <1>10, <2>1 DEF Within
    <3>2. "judge" # "off" /\ "judge" # "restore" /\ "judge" # "model"
      OBVIOUS
    <3> QED
      BY <3>1, <3>2
  <2>2. CASE k \notin 1 .. Len(tasks)
    <3>1. k \in 1 .. Len(tasks) + Len(t) /\ Len(t) \in Nat
      BY <1>4, <1>10, SeqFacts
    <3>2. k > Len(tasks) /\ k - Len(tasks) \in DOMAIN t
      BY <1>4, <1>9, <2>2, <3>1
    <3> QED
      BY <1>7, <1>10, <3>1, <3>2
  <2> QED
    BY <2>1, <2>2
<1>12. plan'[p] = u
  BY DEF u, t
<1>13. Bracketed(p, -1, 0)'
  <2>1. \A k \in DOMAIN u : k # -1 /\ k # 0 /\ ~(k < 0)
    <3>1. Len(t) \in Nat
      BY <1>4, SeqFacts
    <3> QED
      BY <1>9, <1>10, <3>1
  <2>2. -1 \in Int /\ 0 \in Int /\ -1 < 0 /\ 0 < 1
    OBVIOUS
  <2> QED
    BY <1>1, <1>6, <1>11, <1>12, <2>1, <2>2 DEF Bracketed, Fresh
<1>14. Switched(p, -1, 0)'
  <2>1. ~Inside(-1, 0) /\ ~Inside(o, r)
    BY <1>6 DEF Inside
  <2> QED
    BY <1>1, <1>2, <2>1 DEF Switched
<1>15. (\E o1, r1 : Bracketed(p, o1, r1) /\ Switched(p, o1, r1))'
  BY <1>13, <1>14
<1>16. IsSeq(plan[p])' /\ Cites(plan[p])'
  BY <1>10, <1>12 DEF IsSeq, Values, Cites
<1>17. "audit" \notin Running /\ "audit" \notin Before
  BY DEF Running, Before
<1> QED
  BY <1>1, <1>3, <1>15, <1>16, <1>17 DEF PlanInv

\* Steps of run_eval, with their judge calls.
LEMMA RunPlanned ==
    ASSUME Kept, Grows, NEW p \in Process, EvalStep(p) \/ Crash(p), UNCHANGED auditing, PlanInv(p)
    PROVE  PlanInv(p)'
<1> USE DEF Kept, Goto
<1>1. saved'[p] = saved[p] /\ marks'[p] = marks[p] /\ plan'[p] = plan[p]
  BY DEF auditing
<1>2. CASE Start(p)
  <2>1. /\ pc'[p] = "load" /\ enabled'[p] = command[p].cached /\ model'[p] = command[p].model
        /\ pc[p] = "idle" /\ command[p].tool \in Runs /\ command' = command
    BY <1>2 DEF Start
  <2>2. marks[p] = << >> /\ saved[p] = NoSettings
    BY <2>1 DEF PlanInv, Before
  <2>3. "load" \notin {"plan", "audit"} /\ "load" # "idle"
    OBVIOUS
  <2> QED
    BY <1>1, <2>1, <2>2, <2>3 DEF PlanInv
<1>3. CASE AskJudge(p) \/ SkipJudge(p) \/ JudgeReplies(p) \/ JudgeFails(p) \/ TakeScore(p)
  <2>1. pc'[p] = pc[p] /\ enabled'[p] = enabled[p] /\ model'[p] = model[p]
    BY <1>3 DEF AskJudge, SkipJudge, JudgeReplies, JudgeFails, TakeScore, Ask, Replies, JudgeRaises,
                Returned, judging, running
  <2> QED
    BY <1>1, <2>1, PlanKept
<1>4. CASE \/ Load(p) \/ Generate(p) \/ GenerateRaises(p) \/ JudgeRaised(p) \/ EndCase(p)
           \/ FinishRun(p) \/ RecordFails(p)
  <2>1. pc[p] \in Running /\ enabled'[p] = enabled[p] /\ model'[p] = model[p]
    BY <1>4 DEF Load, Generate, GenerateRaises, JudgeRaised, EndCase, FinishRun, RecordFails, judging,
                Returned, Running
  <2>2. pc'[p] \in Running \cup {"done", "failed", "dead"}
    <3>1. CASE Generate(p) \/ EndCase(p)
      BY <3>1 DEF Generate, EndCase, Running
    <3>2. CASE FinishRun(p)
      BY <3>2 DEF FinishRun, NextConfig, Running
    <3>3. CASE Load(p)
      BY <3>3, GivesUp DEF Load, Running
    <3>4. CASE GenerateRaises(p) \/ JudgeRaised(p) \/ RecordFails(p)
      BY <3>4, GivesUp DEF GenerateRaises, JudgeRaised, RecordFails, Running
    <3> QED
      BY <1>4, <3>1, <3>2, <3>3, <3>4
  <2> QED
    BY <1>1, <2>1, <2>2, PlanApart
<1>5. CASE FinishUnrecorded(p)
  <2>1. /\ pc'[p] = "plan" /\ pc[p] = "record" /\ command[p].tool = "reliability" /\ command' = command
        /\ enabled'[p] = enabled[p] /\ model'[p] = model[p]
    BY <1>5 DEF FinishUnrecorded, judging
  <2>2. /\ marks[p] = << >> /\ saved[p] = NoSettings
        /\ enabled[p] = command[p].cached /\ model[p] = command[p].model
    BY <2>1 DEF PlanInv, Before
  <2>3. /\ "plan" \notin Running /\ "plan" # "audit"
        /\ "reliability" # "eval" /\ "reliability" # "ablation" /\ "reliability" # "none"
    BY DEF Running
  <2> QED
    BY <1>1, <2>1, <2>2, <2>3 DEF PlanInv
<1>6. CASE Crash(p)
  <2>1. pc'[p] = "dead"
    BY <1>6 DEF Crash
  <2> QED
    BY <2>1, PlanOver
<1> QED
  BY <1>2, <1>3, <1>4, <1>5, <1>6 DEF EvalStep

\* The settings are changed and put back.
LEMMA AuditPlanned ==
    ASSUME Kept, Grows, NEW p \in Process, AuditTask(p), PlanInv(p)
    PROVE  PlanInv(p)'
<1> USE DEF Kept, Goto
<1>1. CASE AuditFails(p)
  <2>1. pc'[p] = "failed"
    BY <1>1 DEF AuditFails, EndAudit
  <2> QED
    BY <2>1, PlanOver
<1>2. CASE AskForMark(p)
  <2>1. /\ pc'[p] = pc[p] /\ enabled'[p] = enabled[p] /\ model'[p] = model[p]
        /\ saved'[p] = saved[p] /\ marks'[p] = marks[p] /\ plan'[p] = plan[p]
    BY <1>2 DEF AskForMark, Ask, running, auditing
  <2> QED
    BY <2>1, PlanKept
<1>3. CASE TakeMark(p)
  <2>1. /\ pc[p] = "audit" /\ pc'[p] = "audit" /\ enabled'[p] = enabled[p] /\ model'[p] = model[p]
        /\ saved'[p] = saved[p] /\ plan[p] # << >> /\ plan'[p] = Tail(plan[p])
        /\ Next1(p).do = "judge"
    BY <1>3 DEF TakeMark, Doing, Done1, Returned, running
  <2>2. "judge" \notin {"off", "restore"}
    OBVIOUS
  <2> QED
    BY <2>1, <2>2, TailSwitched
<1>4. CASE SetModel(p)
  <2>1. /\ pc[p] = "audit" /\ pc'[p] = "audit" /\ enabled'[p] = enabled[p]
        /\ saved'[p] = saved[p] /\ plan[p] # << >> /\ plan'[p] = Tail(plan[p])
        /\ Next1(p).do = "model"
    BY <1>4 DEF SetModel, Doing, Done1, running
  <2>2. "model" \notin {"off", "restore"}
    OBVIOUS
  <2>3. command[p].tool = "matrix"
    <3>1. IsSeq(plan[p]) /\ \E o, r : Bracketed(p, o, r)
      BY <2>1 DEF PlanInv
    <3>2. 1 \in DOMAIN plan[p] /\ plan[p][1].do = "model"
      BY <2>1, <3>1, TailFacts, SeqFacts DEF Next1
    <3> QED
      BY <3>1, <3>2 DEF Bracketed
  <2> QED
    BY <2>1, <2>2, <2>3, TailSwitched
<1>5. CASE CacheOff(p) \/ Restore(p)
  <2>1. /\ pc[p] = "audit" /\ pc'[p] = "audit" /\ plan[p] # << >> /\ plan'[p] = Tail(plan[p])
        /\ command' = command
    BY <1>5 DEF CacheOff, Restore, Doing, Done1, running
  <2>2. PICK o, r : Bracketed(p, o, r) /\ Switched(p, o, r)
    BY <2>1 DEF PlanInv
  <2>3. IsSeq(plan[p]) /\ Cites(plan[p]) /\ command[p].tool \notin {"eval", "ablation", "none"}
    BY <2>1 DEF PlanInv
  <2>4. /\ IsSeq(plan[p])' /\ Cites(plan[p])' /\ Bracketed(p, o - 1, r - 1)'
        /\ Next1(p).do = "off" <=> o = 1
        /\ Next1(p).do = "restore" <=> r = 1
    BY <2>1, <2>2, <2>3, TailBracketed
  <2>5. o \in Int /\ r \in Int /\ o < r
    BY <2>2 DEF Bracketed
  <2>6. Switched(p, o - 1, r - 1)'
    <3>1. CASE CacheOff(p)
      <4>1. /\ o = 1 /\ enabled'[p] = FALSE /\ model'[p] = model[p]
            /\ saved'[p] = [model |-> model[p], enabled |-> enabled[p]]
        BY <2>4, <3>1 DEF CacheOff, Doing
      <4>2. ~Inside(o, r) /\ Inside(o - 1, r - 1)
        BY <2>5, <4>1 DEF Inside
      <4>3. ~enabled'[p]
        BY <4>1
      <4>4. ASSUME command[p].tool = "audit", command[p].cached
            PROVE  /\ model'[p] = command[p].model
                   /\ saved'[p] = [model |-> command[p].model, enabled |-> TRUE]
        <5>1. model[p] = command[p].model /\ enabled[p]
          BY <2>2, <4>2, <4>4 DEF Switched
        <5>2. enabled[p] = TRUE
          BY <3>1, <5>1 DEF Kept
        <5> QED
          BY <4>1, <5>1, <5>2
      <4> QED
        BY <2>1, <4>2, <4>3, <4>4 DEF Switched
    <3>2. CASE Restore(p)
      <4>1. r = 1 /\ PutBack(p)
        BY <2>4, <3>2 DEF Restore, Doing
      <4>2. Inside(o, r) /\ ~Inside(o - 1, r - 1)
        BY <2>5, <4>1 DEF Inside
      <4>3. ASSUME command[p].tool = "audit", command[p].cached
            PROVE  model'[p] = command[p].model /\ enabled'[p] /\ saved'[p] = NoSettings
        <5>1. saved[p] = [model |-> command[p].model, enabled |-> TRUE]
          BY <2>2, <4>2, <4>3 DEF Switched
        <5>2. saved[p] # NoSettings /\ saved[p].enabled = TRUE /\ saved[p].model = command[p].model
          BY <5>1 DEF NoSettings
        <5>3. enabled' = [enabled EXCEPT ![p] = saved[p].enabled] /\ model' = [model EXCEPT ![p] = saved[p].model]
              /\ saved' = [saved EXCEPT ![p] = NoSettings]
          BY <4>1, <5>2 DEF PutBack
        <5>4. enabled'[p] = TRUE /\ model'[p] = command[p].model /\ saved'[p] = NoSettings
          BY <5>2, <5>3
        <5> QED
          BY <5>4
      <4> QED
        BY <2>1, <4>2, <4>3 DEF Switched
    <3> QED
      BY <1>5, <3>1, <3>2
  <2>7. (\E o1, r1 : Bracketed(p, o1, r1) /\ Switched(p, o1, r1))'
    BY <2>4, <2>6
  <2>8. "audit" \notin Running /\ "audit" \notin Before
    BY DEF Running, Before
  <2> QED
    BY <2>1, <2>3, <2>4, <2>7, <2>8 DEF PlanInv
<1> QED
  BY <1>1, <1>2, <1>3, <1>4, <1>5 DEF AuditTask

\* A plan is made, grows with the answers and ends.
LEMMA ProbePlanned ==
    ASSUME Kept, Grows, command \in Scenario, NEW p \in Process, ProbeStep(p), PlanInv(p)
    PROVE  PlanInv(p)'
<1> USE DEF Kept, Goto
<1>1. CASE ProbeRaises(p) \/ Report(p)
  <2>1. pc'[p] \in {"failed", "done"}
    BY <1>1 DEF ProbeRaises, Report, EndAudit
  <2> QED
    BY <2>1, PlanOver
<1>2. CASE StartProbe(p)
  <2>1. /\ pc'[p] = "plan" /\ enabled'[p] = command[p].cached /\ model'[p] = command[p].model
        /\ pc[p] = "idle" /\ command[p].tool \notin {"eval", "ablation", "none"} /\ command' = command
        /\ saved'[p] = saved[p] /\ marks'[p] = marks[p]
    BY <1>2 DEF StartProbe, auditing, Runs
  <2>2. marks[p] = << >> /\ saved[p] = NoSettings
    BY <2>1 DEF PlanInv, Before
  <2>3. "plan" \notin Running /\ "plan" # "audit"
    BY DEF Running
  <2> QED
    BY <2>1, <2>2, <2>3 DEF PlanInv
<1>3. CASE MakePlan(p)
  <2>1. /\ pc[p] = "plan" /\ pc'[p] = "audit" /\ plan'[p] = Plan(p) /\ command' = command
        /\ saved'[p] = saved[p] /\ marks'[p] = marks[p] /\ enabled'[p] = enabled[p] /\ model'[p] = model[p]
    BY <1>3 DEF MakePlan, judging
  <2>2. /\ command[p].tool \notin {"eval", "ablation", "none"} /\ saved[p] = NoSettings
        /\ enabled[p] = command[p].cached /\ model[p] = command[p].model
    BY <2>1 DEF PlanInv, Before
  <2> DEFINE s == Plan(p)
  <2>3. IsSeq(s) /\ Cites(s)
    BY <2>2, PlanBracketed
  <2>4. PICK o, r : /\ o \in Int /\ r \in Int /\ o < r /\ ~Inside(o, r)
                    /\ \A k \in DOMAIN s :
                          /\ s[k].do = "off" <=> k = o
                          /\ s[k].do = "restore" <=> k = r
                          /\ s[k].do = "judge" => (Fresh(p, s[k]) <=> (o < k /\ k < r))
                          /\ s[k].do = "generate" => r < 1 /\ command[p].tool # "matrix"
                          /\ s[k].do = "model" => command[p].tool = "matrix"
    BY <2>2, PlanBracketed
  <2> HIDE DEF s
  <2>5. plan'[p] = s
    BY <2>1 DEF s
  <2>6. Bracketed(p, o, r)'
    BY <2>1, <2>4, <2>5 DEF Bracketed, Fresh
  <2>7. Switched(p, o, r)'
    BY <2>1, <2>2, <2>4 DEF Switched
  <2>8. (\E o1, r1 : Bracketed(p, o1, r1) /\ Switched(p, o1, r1))'
    BY <2>6, <2>7
  <2>9. IsSeq(plan[p])' /\ Cites(plan[p])'
    BY <2>3, <2>5 DEF IsSeq, Values, Cites
  <2>10. "audit" \notin Running /\ "audit" \notin Before
    BY DEF Running, Before
  <2> QED
    BY <2>1, <2>2, <2>8, <2>9, <2>10 DEF PlanInv
<1>4. CASE GenerateCited(p)
  <2> DEFINE case == Next1(p).subject
  <2>1. PICK answer \in CitedAnswers[case] : Expand(p, CitationTasks(case, answer))
    BY <1>4 DEF GenerateCited
  <2>2. Doing(p, "generate") /\ Next1(p).use = "citation" /\ pc[p] = "audit" /\ plan[p] # << >>
    BY <1>4 DEF GenerateCited, Doing
  <2>3. case \in DOMAIN Relevant
    <3>1. IsSeq(plan[p]) /\ Cites(plan[p])
      BY <2>2 DEF PlanInv
    <3>2. 1 \in DOMAIN plan[p] /\ Next1(p) = plan[p][1]
      BY <2>2, <3>1, TailFacts, SeqFacts DEF Next1
    <3> QED
      BY <2>2, <3>1, <3>2 DEF Cites, Doing
  <2> DEFINE tasks == CitationTasks(case, answer)
  <2>4. Within(tasks, {"judge"}, {"citation"})
    <3> HIDE DEF case
    <3> QED
      BY <2>1, <2>3, CitationWithin
  <2>5. /\ plan'[p] = tasks \o Tail(plan[p]) /\ pc'[p] = pc[p] /\ saved'[p] = saved[p]
        /\ enabled'[p] = enabled[p] /\ model'[p] = model[p]
    BY <2>1 DEF Expand, judging, running
  <2>6. "retest" \notin {"citation"}
    OBVIOUS
  <2> HIDE DEF tasks
  <2> QED
    BY <2>2, <2>4, <2>5, <2>6, PlanExpanded
<1>5. CASE GenerateNoisy(p)
  <2> DEFINE case == Next1(p).subject.case
             text(answer) == <<answer, "generated">>
             both(answer) == <<Grounded("noise", case, Next1(p).subject.texts, Append(text(answer), "plain")),
                               JudgeTask("noise", "correctness", case, text(answer), "plain")>>
  <2>1. PICK answer \in NoisyAnswers : Expand(p, both(answer))
    BY <1>5 DEF GenerateNoisy
  <2>2. Doing(p, "generate")
    BY <1>5 DEF GenerateNoisy
  <2> DEFINE tasks == both(answer)
             x == Grounded("noise", case, Next1(p).subject.texts, Append(text(answer), "plain"))
             y == JudgeTask("noise", "correctness", case, text(answer), "plain")
  <2>3. x.do = "judge" /\ x.use = "noise" /\ y.do = "judge" /\ y.use = "noise" /\ tasks = <<x, y>>
    BY TaskParts
  <2>4. /\ plan'[p] = tasks \o Tail(plan[p]) /\ pc'[p] = pc[p] /\ saved'[p] = saved[p]
        /\ enabled'[p] = enabled[p] /\ model'[p] = model[p]
    BY <2>1 DEF Expand, judging, running
  <2>5. "retest" \notin {"noise"}
    OBVIOUS
  <2> HIDE DEF x, y, tasks
  <2>6. Within(tasks, {"judge"}, {"noise"})
    BY <2>3, TwoWithin
  <2> QED
    BY <2>2, <2>4, <2>5, <2>6, PlanExpanded
<1>6. CASE Abstain(p) \/ Poison(p) \/ PoisonFacts(p)
  <2>1. /\ pc[p] = "audit" /\ pc'[p] = "audit" /\ enabled'[p] = enabled[p] /\ model'[p] = model[p]
        /\ saved'[p] = saved[p] /\ plan[p] # << >> /\ plan'[p] = Tail(plan[p])
        /\ Next1(p).do \in {"abstain", "poison", "counterfactual"}
    BY <1>6 DEF Abstain, Poison, PoisonFacts, Rated, Doing, Done1, running, judging
  <2>2. Next1(p).do \notin {"off", "restore"}
    BY <2>1
  <2> QED
    BY <2>1, <2>2, TailSwitched
<1> QED
  BY <1>1, <1>2, <1>3, <1>4, <1>5, <1>6 DEF ProbeStep

LEMMA PlanNext ==
    ASSUME Kept, Grows, command \in Scenario, NEW p \in Process, Step(p), PlanInv(p)
    PROVE  PlanInv(p)'
<1>1. CASE (EvalStep(p) \/ Crash(p)) /\ UNCHANGED <<auditing, rates, grade>>
  <2>1. UNCHANGED auditing
    BY <1>1
  <2> QED
    BY <1>1, <2>1, RunPlanned
<1> QED
  BY <1>1, AuditPlanned, ProbePlanned DEF Step

-----------------------------------------------------------------------------
\* Re-tests are paid for, and everything else only once

FreshInv(p) ==
    /\ \A k \in DOMAIN marks[p] : Fresh(p, marks[p][k]) => marks[p][k].paid
    /\ call[p].state = "scored" /\ Doing(p, "judge") /\ Fresh(p, Next1(p)) => call[p].paid

\* A mark whose reply went into the cache.
Settled(p, k) == marks[p][k].paid /\ marks[p][k].use # "retest"

\* p waits for a reply to be kept, or has just paid for one.
Due(p) ==
    /\ Doing(p, "judge") /\ Next1(p).use # "retest"
    /\ call[p].state = "asked" \/ (call[p].state = "scored" /\ call[p].paid)

\* Of an audit with the cache, each settled mark has its row, so that nothing is
\* asked again that has one.
OnceInv(p) ==
    command[p].tool = "audit" /\ command[p].cached =>
        /\ \A j \in DOMAIN marks[p] : Settled(p, j) => <<command[p].model, marks[p][j].subject>> \in DOMAIN rows
        /\ \A j, k \in DOMAIN marks[p] :
              Settled(p, j) /\ Settled(p, k) /\ marks[p][j].subject = marks[p][k].subject => j = k
        /\ Due(p) =>
              /\ call[p].keep
              /\ \A j \in DOMAIN marks[p] : Settled(p, j) => marks[p][j].subject # Next1(p).subject
              /\ call[p].state = "scored" => call[p].key \in DOMAIN rows

\* The call of p is over, or not for a mark, or the same as before.
LEMMA MarksApart ==
    ASSUME Grows, NEW p, FreshInv(p), OnceInv(p),
           marks'[p] = marks[p] \/ marks'[p] = << >>,
           \/ call'[p].state \notin {"asked", "scored"}
           \/ pc'[p] # "audit"
           \/ call'[p] = call[p] /\ pc'[p] = pc[p] /\ plan'[p] = plan[p]
    PROVE  FreshInv(p)' /\ OnceInv(p)'
<1>1. command' = command /\ DOMAIN rows \subseteq DOMAIN rows'
  BY DEF Grows
<1>2. DOMAIN marks'[p] = {} \/ marks'[p] = marks[p]
  <2>1. CASE marks'[p] = << >>
    <3>1. marks'[p] \in Seq({})
      BY <2>1
    <3> QED
      BY <3>1, NoElements
  <2> QED
    BY <2>1
<1>3. \/ ~(call[p].state = "scored" /\ Doing(p, "judge"))'
      \/ call'[p] = call[p] /\ pc'[p] = pc[p] /\ plan'[p] = plan[p]
  BY DEF Doing
<1>4. (call[p].state = "scored" /\ Doing(p, "judge") /\ Fresh(p, Next1(p)) => call[p].paid)'
  BY <1>1, <1>3 DEF FreshInv, Doing, Fresh, Next1
<1>5. FreshInv(p)'
  BY <1>1, <1>2, <1>4 DEF FreshInv, Fresh
<1>6. ~Due(p)' \/ (call'[p] = call[p] /\ pc'[p] = pc[p] /\ plan'[p] = plan[p])
  BY DEF Due, Doing
<1>7. Due(p)' => Due(p) /\ call'[p] = call[p] /\ Next1(p)' = Next1(p)
  BY <1>6 DEF Due, Doing, Next1
<1>8. OnceInv(p)'
  <2> SUFFICES ASSUME command[p].tool = "audit", command[p].cached
               PROVE  OnceInv(p)'
    BY <1>1 DEF OnceInv
  <2>1. (\A j \in DOMAIN marks[p] : Settled(p, j) => <<command[p].model, marks[p][j].subject>> \in DOMAIN rows)'
    BY <1>1, <1>2 DEF OnceInv, Settled
  <2>2. (\A j, k \in DOMAIN marks[p] :
            Settled(p, j) /\ Settled(p, k) /\ marks[p][j].subject = marks[p][k].subject => j = k)'
    BY <1>2 DEF OnceInv, Settled
  <2>3. ASSUME Due(p)'
        PROVE  /\ call'[p].keep
               /\ (\A j \in DOMAIN marks[p] : Settled(p, j) => marks[p][j].subject # Next1(p).subject)'
               /\ call'[p].state = "scored" => call'[p].key \in DOMAIN rows'
    BY <1>1, <1>2, <1>7, <2>3 DEF OnceInv, Settled
  <2> QED
    BY <1>1, <2>1, <2>2, <2>3 DEF OnceInv
<1> QED
  BY <1>5, <1>8

\* Where the cache is off when a mark is asked for.
LEMMA HeadSwitched ==
    ASSUME NEW p, PlanInv(p), Doing(p, "judge")
    PROVE  /\ Fresh(p, Next1(p)) => ~enabled[p]
           /\ command[p].tool = "audit" /\ command[p].cached =>
                 model[p] = command[p].model /\ (Next1(p).use # "retest" => enabled[p])
<1>1. pc[p] = "audit" /\ plan[p] # << >> /\ Next1(p).do = "judge"
  BY DEF Doing
<1>2. PICK o, r : Bracketed(p, o, r) /\ Switched(p, o, r)
  BY <1>1 DEF PlanInv
<1>3. IsSeq(plan[p])
  BY <1>1 DEF PlanInv
<1>4. 1 \in DOMAIN plan[p] /\ Next1(p) = plan[p][1]
  BY <1>1, <1>3, TailFacts, SeqFacts DEF Next1
<1>5. o \in Int /\ r \in Int /\ (Fresh(p, Next1(p)) <=> (o < 1 /\ 1 < r)) /\ r # 1
  <2>1. "judge" # "restore"
    OBVIOUS
  <2> QED
    BY <1>1, <1>2, <1>4, <2>1 DEF Bracketed
<1>6. Fresh(p, Next1(p)) <=> Inside(o, r)
  BY <1>5 DEF Inside
<1>7. ASSUME command[p].tool = "audit", command[p].cached, Next1(p).use # "retest" PROVE enabled[p]
  <2>1. ~Fresh(p, Next1(p))
    <3>1. "audit" # "matrix"
      OBVIOUS
    <3> QED
      BY <1>7, <3>1 DEF Fresh
  <2> QED
    BY <1>2, <1>6, <1>7, <2>1 DEF Switched
<1> QED
  BY <1>2, <1>6, <1>7 DEF Switched

\* A mark is asked for: with the cache on only what has no row.
LEMMA AskOnce ==
    ASSUME EarnedInv, Grows, NEW p \in Process, AskForMark(p), PlanInv(p), FreshInv(p), OnceInv(p)
    PROVE  FreshInv(p)' /\ OnceInv(p)'
<1> USE DEF Kept
<1> DEFINE subject == Next1(p).subject
<1>1. /\ Doing(p, "judge") /\ Ask(p, subject) /\ marks'[p] = marks[p] /\ command' = command
      /\ Doing(p, "judge")' /\ Next1(p)' = Next1(p) /\ DOMAIN rows \subseteq DOMAIN rows'
  BY DEF AskForMark, running, auditing, Doing, Next1, Grows
<1>2. /\ Fresh(p, Next1(p)) => ~enabled[p]
      /\ command[p].tool = "audit" /\ command[p].cached =>
            model[p] = command[p].model /\ (Next1(p).use # "retest" => enabled[p])
  BY <1>1, HeadSwitched
<1>3. CASE enabled[p] /\ Cached(Key(model[p], subject))
  <2>1. call'[p].state = "scored" /\ call'[p].paid = FALSE
    BY <1>1, <1>3 DEF Ask, EarnedInv
  <2>2. ~Fresh(p, Next1(p)) /\ ~Due(p)'
    <3>1. "scored" # "asked"
      OBVIOUS
    <3> QED
      BY <1>2, <1>3, <2>1, <3>1 DEF Due
  <2>3. FreshInv(p)'
    BY <1>1, <2>2 DEF FreshInv, Fresh
  <2>4. OnceInv(p)'
    BY <1>1, <2>2 DEF OnceInv, Settled
  <2> QED
    BY <2>3, <2>4
<1>4. CASE ~(enabled[p] /\ Cached(Key(model[p], subject)))
  <2>1. call'[p].state = "asked" /\ call'[p].keep = enabled[p] /\ "asked" # "scored"
    BY <1>1, <1>4 DEF Ask, EarnedInv
  <2>2. FreshInv(p)'
    BY <1>1, <2>1 DEF FreshInv, Fresh
  <2>3. ASSUME command[p].tool = "audit", command[p].cached, Due(p)'
        PROVE  call'[p].keep /\ \A j \in DOMAIN marks[p] : Settled(p, j) => marks[p][j].subject # subject
    <3>1. enabled[p] /\ model[p] = command[p].model
      BY <1>1, <1>2, <2>3 DEF Due
    <3>2. <<command[p].model, subject>> \notin DOMAIN rows
      BY <1>4, <3>1 DEF Cached, Key
    <3> HIDE DEF subject
    <3>3. ASSUME NEW j \in DOMAIN marks[p], Settled(p, j) PROVE marks[p][j].subject # subject
      BY <2>3, <3>2, <3>3 DEF OnceInv
    <3> QED
      BY <2>1, <3>1, <3>3
  <2>4. OnceInv(p)'
    BY <1>1, <2>1, <2>3 DEF OnceInv, Settled
  <2> QED
    BY <2>2, <2>4
<1> QED
  BY <1>3, <1>4

\* The reply comes, and is kept if it was to be.
LEMMA ReplyOnce ==
    ASSUME EarnedInv, Grows, NEW p \in Process, JudgeReplies(p), UNCHANGED auditing, FreshInv(p), OnceInv(p)
    PROVE  FreshInv(p)' /\ OnceInv(p)'
<1> USE DEF Kept
<1>1. /\ call[p].state = "asked" /\ marks'[p] = marks[p] /\ command' = command
      /\ Doing(p, "judge")' = Doing(p, "judge") /\ Next1(p)' = Next1(p) /\ DOMAIN rows \subseteq DOMAIN rows'
  BY DEF JudgeReplies, Replies, running, auditing, Doing, Next1, Grows
<1>2. PICK reply \in ReplyOf[call[p].key[2]] :
          /\ IF call[p].keep THEN Put(Key(call[p].key[1], call[p].key[2]), reply) ELSE UNCHANGED rows
          /\ call' = [call EXCEPT ![p].state = "scored", ![p].score = Parse(reply), ![p].paid = TRUE]
  BY DEF JudgeReplies, Replies
<1>3. call'[p] = [call[p] EXCEPT !.state = "scored", !.score = Parse(reply), !.paid = TRUE]
  BY <1>2 DEF EarnedInv
<1>4. call[p] = [state |-> call[p].state, key |-> call[p].key, keep |-> call[p].keep,
                 score |-> call[p].score, paid |-> call[p].paid]
  BY DEF EarnedInv, CallInv
<1>5. /\ call'[p].state = "scored" /\ call'[p].paid = TRUE
      /\ call'[p].keep = call[p].keep /\ call'[p].key = call[p].key
  BY <1>3, <1>4
<1>6. FreshInv(p)'
  BY <1>1, <1>5 DEF FreshInv, Fresh
<1>7. Due(p)' => Due(p)
  BY <1>1 DEF Due
<1>8. ASSUME Due(p), call[p].keep PROVE call[p].key \in DOMAIN rows'
  <2>1. call[p].key = <<model[p], Next1(p).subject>>
    <3>1. "asked" # "none" /\ "audit" # "judge"
      OBVIOUS
    <3> QED
      BY <1>1, <1>8, <3>1 DEF EarnedInv, CallInv, Due, Doing
  <2>2. Key(call[p].key[1], call[p].key[2]) = call[p].key
    BY <2>1 DEF Key
  <2>3. Put(call[p].key, reply)
    BY <1>2, <1>8, <2>2
  <2>4. DOMAIN rows' = DOMAIN rows \cup {call[p].key}
    BY <2>3, PutGrows
  <2> QED
    BY <2>4
<1>9. OnceInv(p)'
  BY <1>1, <1>5, <1>7, <1>8 DEF OnceInv, Settled
<1> QED
  BY <1>6, <1>9

\* The mark is made.
LEMMA TakeOnce ==
    ASSUME EarnedInv, Grows, NEW p \in Process, TakeMark(p), PlanInv(p), FreshInv(p), OnceInv(p)
    PROVE  FreshInv(p)' /\ OnceInv(p)'
<1> USE DEF Kept
<1> DEFINE mark == [use |-> Next1(p).use, subject |-> Next1(p).subject, model |-> model[p],
                    score |-> call[p].score, paid |-> call[p].paid]
           n == Len(marks[p])
<1>1. /\ Doing(p, "judge") /\ call[p].state = "scored" /\ call'[p] = NoCall
      /\ marks'[p] = Append(marks[p], mark) /\ command' = command /\ DOMAIN rows \subseteq DOMAIN rows'
  BY DEF TakeMark, Returned, EarnedInv, Grows
<1>2. mark.use = Next1(p).use /\ mark.subject = Next1(p).subject /\ mark.paid = call[p].paid
  OBVIOUS
<1>3. call[p].key = <<model[p], Next1(p).subject>>
  <2>1. "scored" # "none" /\ "audit" # "judge"
    OBVIOUS
  <2> QED
    BY <1>1, <2>1 DEF EarnedInv, CallInv, Doing
<1> HIDE DEF mark
<1>4. IsSeq(marks[p]) /\ DOMAIN marks[p] = 1 .. n /\ n \in Nat
  BY SeqFacts DEF EarnedInv, MarksInv
<1>5. /\ DOMAIN marks'[p] = 1 .. n + 1
      /\ \A k \in 1 .. n : marks'[p][k] = marks[p][k]
      /\ marks'[p][n + 1] = mark
  BY <1>1, <1>4, AppendFacts
<1> HIDE DEF n
<1>6. \A k \in DOMAIN marks'[p] : k = n + 1 \/ (k \in DOMAIN marks[p] /\ marks'[p][k] = marks[p][k])
  BY <1>4, <1>5
<1>7. ~(call[p].state = "scored" /\ Doing(p, "judge"))' /\ ~Due(p)'
  <2>1. call'[p].state = "none"
    BY <1>1 DEF NoCall
  <2>2. "none" # "scored" /\ "none" # "asked"
    OBVIOUS
  <2> QED
    BY <2>1, <2>2 DEF Due
<1>8. FreshInv(p)'
  <2>1. ASSUME NEW k \in DOMAIN marks'[p], Fresh(p, marks[p][k])' PROVE marks'[p][k].paid
    <3>1. CASE k = n + 1
      <4>1. Fresh(p, Next1(p))
        BY <1>1, <1>2, <1>5, <2>1, <3>1 DEF Fresh
      <4> QED
        BY <1>1, <1>2, <1>5, <3>1, <4>1 DEF FreshInv
    <3>2. CASE k # n + 1
      <4>1. Fresh(p, marks[p][k])
        BY <1>1, <1>6, <2>1, <3>2 DEF Fresh
      <4> QED
        BY <1>6, <3>2, <4>1 DEF FreshInv
    <3> QED
      BY <3>1, <3>2
  <2> QED
    BY <1>7, <2>1 DEF FreshInv
<1>9. ASSUME command[p].tool = "audit", command[p].cached
      PROVE  /\ (\A j \in DOMAIN marks[p] : Settled(p, j) => <<command[p].model, marks[p][j].subject>> \in DOMAIN rows)'
             /\ (\A j, k \in DOMAIN marks[p] :
                    Settled(p, j) /\ Settled(p, k) /\ marks[p][j].subject = marks[p][k].subject => j = k)'
  <2>1. model[p] = command[p].model
    BY <1>1, <1>9, HeadSwitched
  <2>2. ASSUME mark.paid, mark.use # "retest"
        PROVE  /\ <<command[p].model, mark.subject>> \in DOMAIN rows
               /\ \A j \in DOMAIN marks[p] : Settled(p, j) => marks[p][j].subject # mark.subject
    <3>2. Due(p)
      BY <1>1, <1>2, <2>2 DEF Due
    <3> QED
      BY <1>1, <1>2, <1>3, <1>9, <2>1, <3>2 DEF OnceInv
  <2>3. \A j \in DOMAIN marks'[p] : j # n + 1 => (Settled(p, j)' <=> Settled(p, j))
    BY <1>6 DEF Settled
  <2>4. ASSUME NEW j \in DOMAIN marks'[p], Settled(p, j)'
        PROVE  <<command'[p].model, marks'[p][j].subject>> \in DOMAIN rows'
    <3>1. CASE j = n + 1
      BY <1>1, <1>5, <2>2, <2>4, <3>1 DEF Settled
    <3>2. CASE j # n + 1
      BY <1>1, <1>6, <1>9, <2>3, <2>4, <3>2 DEF OnceInv
    <3> QED
      BY <3>1, <3>2
  <2>5. ASSUME NEW j \in DOMAIN marks'[p], NEW k \in DOMAIN marks'[p], Settled(p, j)', Settled(p, k)',
               marks'[p][j].subject = marks'[p][k].subject
        PROVE  j = k
    <3>1. CASE j = n + 1 /\ k = n + 1
      BY <3>1
    <3>2. CASE j = n + 1 /\ k # n + 1
      BY <1>5, <1>6, <2>2, <2>3, <2>5, <3>2 DEF Settled
    <3>3. CASE j # n + 1 /\ k = n + 1
      BY <1>5, <1>6, <2>2, <2>3, <2>5, <3>3 DEF Settled
    <3>4. CASE j # n + 1 /\ k # n + 1
      BY <1>6, <1>9, <2>3, <2>5, <3>4 DEF OnceInv
    <3> QED
      BY <3>1, <3>2, <3>3, <3>4
  <2> QED
    BY <2>4, <2>5
<1>10. OnceInv(p)'
  BY <1>1, <1>7, <1>9 DEF OnceInv
<1> QED
  BY <1>8, <1>10

LEMMA MarksNext ==
    ASSUME EarnedInv, Grows, NEW p \in Process, Step(p), PlanInv(p), FreshInv(p), OnceInv(p)
    PROVE  FreshInv(p)' /\ OnceInv(p)'
<1> USE DEF Kept, Goto
<1>q. ASSUME marks'[p] = marks[p], pc[p] # "judge", ~Doing(p, "judge"), call'[p] = call[p]
      PROVE  FreshInv(p)' /\ OnceInv(p)'
  <2>1. call'[p].state = "none"
    BY <1>q, Quiet DEF EarnedInv
  <2>2. "none" \notin {"asked", "scored"}
    OBVIOUS
  <2> QED
    BY <1>q, <2>1, <2>2, MarksApart
<1>n. NoCall.state \notin {"asked", "scored"}
  BY DEF NoCall
<1>1. CASE (EvalStep(p) \/ Crash(p)) /\ UNCHANGED <<auditing, rates, grade>>
  <2>1. marks'[p] = marks[p] /\ UNCHANGED auditing
    BY <1>1 DEF auditing
  <2>2. CASE JudgeReplies(p)
    BY <2>1, <2>2, ReplyOnce
  <2>3. CASE JudgeFails(p)
    <3>1. call'[p] = [call[p] EXCEPT !.state = "raised"]
      BY <2>3 DEF JudgeFails, JudgeRaises, EarnedInv
    <3>2. call'[p].state = "raised" /\ "raised" \notin {"asked", "scored"}
      BY <3>1 DEF EarnedInv, CallInv
    <3> QED
      BY <2>1, <3>2, MarksApart
  <2>4. CASE ~(JudgeReplies(p) \/ JudgeFails(p))
    <3>1. pc'[p] # "audit"
      <4>1. CASE Start(p) \/ Generate(p) \/ EndCase(p) \/ FinishUnrecorded(p) \/ Crash(p)
        BY <4>1 DEF Start, Generate, EndCase, FinishUnrecorded, Crash, EarnedInv
      <4>2. CASE AskJudge(p) \/ SkipJudge(p) \/ TakeScore(p)
        BY <4>2 DEF AskJudge, SkipJudge, TakeScore, running
      <4>3. CASE FinishRun(p)
        BY <4>3 DEF FinishRun, NextConfig, EarnedInv
      <4>4. CASE Load(p)
        BY <4>4, GivesUp DEF Load, EarnedInv
      <4>5. CASE GenerateRaises(p) \/ JudgeRaised(p) \/ RecordFails(p)
        BY <4>5, GivesUp DEF GenerateRaises, JudgeRaised, RecordFails, EarnedInv
      <4> QED
        BY <1>1, <2>4, <4>1, <4>2, <4>3, <4>4, <4>5 DEF EvalStep
    <3> QED
      BY <2>1, <3>1, MarksApart
  <2> QED
    BY <2>2, <2>3, <2>4
<1>2. CASE AuditTask(p) /\ UNCHANGED <<rates, grade>>
  <2>1. CASE CacheOff(p) \/ Restore(p) \/ SetModel(p)
    <3>1. "off" # "judge" /\ "restore" # "judge" /\ "model" # "judge" /\ "audit" # "judge"
      OBVIOUS
    <3>2. marks'[p] = marks[p] /\ call'[p] = call[p] /\ pc[p] # "judge" /\ ~Doing(p, "judge")
      BY <2>1, <3>1 DEF CacheOff, Restore, SetModel, Doing
    <3> QED
      BY <1>q, <3>2
  <2>2. CASE AuditFails(p)
    <3>1. call'[p] = NoCall /\ marks'[p] = << >>
      BY <2>2 DEF AuditFails, EndAudit, EarnedInv
    <3> QED
      BY <1>n, <3>1, MarksApart
  <2> QED
    BY <1>2, <2>1, <2>2, AskOnce, TakeOnce DEF AuditTask
<1>3. CASE ProbeStep(p)
  <2>1. CASE StartProbe(p) \/ MakePlan(p) \/ Report(p)
    <3>1. pc[p] # "judge" /\ ~Doing(p, "judge") /\ marks'[p] = marks[p] /\ call'[p] = call[p]
      BY <2>1 DEF StartProbe, MakePlan, Report, judging, auditing, Doing
    <3> QED
      BY <1>q, <3>1
  <2>2. CASE GenerateCited(p) \/ GenerateNoisy(p)
    <3>1. "generate" # "judge" /\ "audit" # "judge"
      OBVIOUS
    <3>2. pc[p] # "judge" /\ ~Doing(p, "judge") /\ marks'[p] = marks[p] /\ call'[p] = call[p]
      BY <2>2, <3>1 DEF GenerateCited, GenerateNoisy, Expand, judging, Doing
    <3> QED
      BY <1>q, <3>2
  <2>3. CASE Abstain(p) \/ Poison(p) \/ PoisonFacts(p)
    <3>1. "abstain" # "judge" /\ "poison" # "judge" /\ "counterfactual" # "judge" /\ "audit" # "judge"
      OBVIOUS
    <3>2. pc[p] # "judge" /\ ~Doing(p, "judge") /\ marks'[p] = marks[p] /\ call'[p] = call[p]
      BY <2>3, <3>1 DEF Abstain, Poison, PoisonFacts, Rated, judging, Doing
    <3> QED
      BY <1>q, <3>2
  <2>4. CASE ProbeRaises(p)
    <3>1. call'[p] = NoCall /\ marks'[p] = << >>
      BY <2>4 DEF ProbeRaises, EndAudit, EarnedInv
    <3> QED
      BY <1>n, <3>1, MarksApart
  <2> QED
    BY <1>3, <2>1, <2>2, <2>3, <2>4 DEF ProbeStep
<1> QED
  BY <1>1, <1>2, <1>3 DEF Step

\* What a process has to itself, and what no other step takes from it.
OwnInv(p) == StoredInv(p) /\ PlanInv(p) /\ FreshInv(p) /\ OnceInv(p)

PaysInv == EarnedInv /\ command \in Scenario /\ \A p \in Process : OwnInv(p)

LEMMA PaysInit == Init => PaysInv
<1> SUFFICES ASSUME Init PROVE PaysInv
  OBVIOUS
<1>1. EarnedInv /\ command \in Scenario
  BY EarnedInit DEF Init, AuditInit, EvalInit
<1>2. ASSUME NEW p \in Process PROVE OwnInv(p)
  <2>1. StoredInv(p)
    BY StoredInit
  <2>2. /\ pc[p] = "idle" /\ marks[p] = << >> /\ saved[p] = NoSettings
    BY DEF Init, AuditInit, EvalInit
  <2>3. marks[p] \in Seq({})
    BY <2>2
  <2>4. DOMAIN marks[p] = {}
    BY <2>3, NoElements
  <2>5. PlanInv(p)
    BY <2>2 DEF PlanInv, Running, Before
  <2>6. ~Doing(p, "judge")
    BY <2>2 DEF Doing
  <2>7. FreshInv(p)
    BY <2>4, <2>6 DEF FreshInv
  <2>8. OnceInv(p)
    BY <2>4, <2>6 DEF OnceInv, Due
  <2> QED
    BY <2>1, <2>5, <2>7, <2>8 DEF OwnInv
<1> QED
  BY <1>1, <1>2 DEF PaysInv

LEMMA OthersPay ==
    ASSUME Grows, NEW q, Same(q), OwnInv(q)
    PROVE  OwnInv(q)'
<1>1. StoredInv(q)'
  BY DEF OwnInv, StoredInv, Same, Grows
<1>2. PlanInv(q)'
  BY PlanKept DEF OwnInv, Same
<1>3. FreshInv(q)' /\ OnceInv(q)'
  BY MarksApart DEF OwnInv, Same
<1> QED
  BY <1>1, <1>2, <1>3 DEF OwnInv

LEMMA PaysNext == PaysInv /\ [Next]_all => PaysInv'
<1> SUFFICES ASSUME PaysInv, [Next]_all PROVE PaysInv'
  OBVIOUS
<1>1. EarnedInv'
  BY EarnedNext DEF PaysInv
<1>2. ASSUME NEW p \in Process, Step(p) PROVE PaysInv'
  <2>1. Grows /\ \A q \in Process : q # p => Same(q)
    BY <1>2, Others DEF PaysInv, EarnedInv
  <2>2. OwnInv(p)'
    <3>1. StoredInv(p)'
      BY <1>2, <2>1, StoredNext DEF PaysInv, OwnInv
    <3>2. PlanInv(p)'
      BY <1>2, <2>1, PlanNext DEF PaysInv, OwnInv, EarnedInv
    <3>3. FreshInv(p)' /\ OnceInv(p)'
      BY <1>2, <2>1, MarksNext DEF PaysInv, OwnInv
    <3> QED
      BY <3>1, <3>2, <3>3 DEF OwnInv
  <2>3. ASSUME NEW q \in Process, q # p PROVE OwnInv(q)'
    BY <2>1, <2>3, OthersPay DEF PaysInv
  <2>4. command' \in Scenario
    BY <2>1 DEF Grows, PaysInv
  <2> QED
    BY <1>1, <2>2, <2>3, <2>4 DEF PaysInv
<1>3. CASE UNCHANGED all
  <2>1. Grows /\ \A q \in Process : Same(q)
    BY <1>3 DEF Grows, Same, all, vars, judging, running, file, auditing
  <2>2. \A q \in Process : OwnInv(q)'
    BY <2>1, OthersPay DEF PaysInv
  <2>3. command' \in Scenario
    BY <2>1 DEF Grows, PaysInv
  <2> QED
    BY <1>1, <2>2, <2>3 DEF PaysInv
<1> QED
  BY <1>2, <1>3 DEF Next, Finished

\* What a re-test or a judge matrix reports was judged anew, call by call: the
\* cache is off from the "off" of the plan to its "restore", and on only outside
\* (judge_audit.py run_stability, run_selection_matrix).
THEOREM RetestsTheorem == Spec => []RetestsFresh
<1>1. PaysInv => RetestsFresh
  BY DEF PaysInv, OwnInv, FreshInv, RetestsFresh, Fresh
<1> QED
  BY <1>1, PaysInit, PaysNext, PTL DEF Spec

\* A command with the cache never pays for what was stored when it began, nor an
\* audit twice for one judgement, whoever else fills the cache meanwhile: reruns
\* are "effectively free" (llm_cache.py get, metrics.py _llm_raw_async).
THEOREM PaidOnceTheorem == Spec => []PaidOnce
<1>1. PaysInv => PaidOnce
  <2> SUFFICES ASSUME PaysInv, NEW p \in Process
               PROVE  /\ ~repaid[p]
                      /\ command[p].tool = "audit" /\ command[p].cached =>
                            \A j, k \in DOMAIN marks[p] :
                                (/\ marks[p][j].subject = marks[p][k].subject /\ marks[p][j].paid /\ marks[p][k].paid
                                 /\ "retest" \notin {marks[p][j].use, marks[p][k].use})
                                => j = k
    BY DEF PaidOnce
  <2>1. ~repaid[p]
    BY DEF PaysInv, OwnInv, StoredInv
  <2>2. ASSUME command[p].tool = "audit", command[p].cached,
               NEW j \in DOMAIN marks[p], NEW k \in DOMAIN marks[p],
               marks[p][j].subject = marks[p][k].subject, marks[p][j].paid, marks[p][k].paid,
               "retest" \notin {marks[p][j].use, marks[p][k].use}
        PROVE  j = k
    <3>1. Settled(p, j) /\ Settled(p, k)
      BY <2>2 DEF Settled
    <3> QED
      BY <2>2, <3>1 DEF PaysInv, OwnInv, OnceInv
  <2> QED
    BY <2>1, <2>2
<1> QED
  BY <1>1, PaysInit, PaysNext, PTL DEF Spec

-----------------------------------------------------------------------------
\* What a broken line hides

Unreadable == {k \in DOMAIN lines : ~lines[k].readable}

\* The last line lacks its end and cannot be read either.
Torn == cut /\ Len(lines) \in Unreadable

HiddenOnce ==
    /\ \A j, k \in DOMAIN lines : lines[j].entry = lines[k].entry => j = k
    /\ IsFiniteSet(recorded)
    /\ cut => Len(lines) \in DOMAIN lines /\ lines[Len(lines)].entry \notin recorded
    /\ Cardinality(recorded \ History) + (IF Torn THEN 1 ELSE 0) <= Cardinality(Unreadable)

\* Nothing has been written of e.
Unwritten(e) == e \notin recorded /\ \A k \in DOMAIN lines : lines[k].entry # e

LEMMA FewLines ==
    ASSUME IsSeq(lines)
    PROVE  IsFiniteSet(Unreadable) /\ Cardinality(Unreadable) \in Nat
<1>1. DOMAIN lines = 1 .. Len(lines) /\ Len(lines) \in Int /\ 1 \in Int
  BY SeqFacts
<1>2. IsFiniteSet(1 .. Len(lines))
  BY <1>1, FS_Interval
<1>3. Unreadable \in SUBSET (1 .. Len(lines))
  BY <1>1 DEF Unreadable
<1> QED
  BY <1>2, <1>3, FS_Subset, FS_CardinalityType

\* An append after a broken line makes that line longer.
LEMMA HiddenMerged ==
    ASSUME HiddenOnce, LinesInv, cut, NEW e, Unwritten(e), NEW readable, lines' = Written(e, readable),
           \/ recorded' = recorded \cup {e} /\ cut' = FALSE
           \/ recorded' = recorded /\ cut' = TRUE
    PROVE  HiddenOnce'
<1> DEFINE n == Len(lines)
           h == Cardinality(recorded \ History)
           u == Cardinality(Unreadable)
<1>1. IsSeq(lines) /\ DOMAIN lines = 1 .. n /\ n \in Nat /\ n \in DOMAIN lines /\ lines[n].entry \notin recorded
  BY SeqFacts DEF LinesInv, HiddenOnce
<1>2. lines' = [lines EXCEPT ![n].readable = FALSE]
  BY DEF Written
<1>3. /\ DOMAIN lines' = 1 .. n /\ lines' = [k \in 1 .. n |-> lines'[k]]
      /\ \A k \in 1 .. n : k # n => lines'[k] = lines[k]
  BY <1>1, <1>2
<1>4. lines'[n].entry = lines[n].entry /\ lines'[n].readable = FALSE
  <2>1. lines'[n] = [lines[n] EXCEPT !.readable = FALSE]
    BY <1>1, <1>2
  <2>2. lines[n] = [entry |-> lines[n].entry, readable |-> lines[n].readable]
    BY <1>1 DEF LinesInv
  <2> QED
    BY <2>1, <2>2
<1>5. Len(lines') = n
  BY <1>1, <1>3, Listed
<1>6. \A k \in 1 .. n : lines'[k].entry = lines[k].entry
  BY <1>3, <1>4
<1>7. Unreadable' = Unreadable \cup {n}
  <2>1. ASSUME NEW k PROVE k \in Unreadable' <=> k \in Unreadable \cup {n}
    <3>1. CASE k = n
      BY <1>1, <1>3, <1>4, <3>1 DEF Unreadable
    <3>2. CASE k # n
      BY <1>1, <1>3, <3>2 DEF Unreadable
    <3> QED
      BY <3>1, <3>2
  <2> HIDE DEF n
  <2> QED
    BY <2>1
<1>8. \A x \in recorded : x \in History <=> x \in History'
  <2> SUFFICES ASSUME NEW x \in recorded PROVE x \in History <=> x \in History'
    OBVIOUS
  <2>1. ASSUME x \in History PROVE x \in History'
    <3>1. PICK k \in DOMAIN lines : lines[k].readable /\ lines[k].entry = x
      BY <2>1 DEF History
    <3>2. k # n
      BY <1>1, <3>1
    <3> QED
      BY <1>1, <1>3, <3>1, <3>2 DEF History
  <2>2. ASSUME x \in History' PROVE x \in History
    <3>1. PICK k \in DOMAIN lines' : lines'[k].readable /\ lines'[k].entry = x
      BY <2>2 DEF History
    <3>2. k # n
      BY <1>4, <3>1
    <3> QED
      BY <1>1, <1>3, <3>1, <3>2 DEF History
  <2> QED
    BY <2>1, <2>2
<1>9. e \notin History'
  <2>1. \A k \in DOMAIN lines' : lines'[k].entry # e
    BY <1>1, <1>3, <1>6 DEF Unwritten
  <2> QED
    BY <2>1 DEF History
<1>10. /\ IsFiniteSet(recorded) /\ IsFiniteSet(recorded \ History) /\ h \in Nat
       /\ IsFiniteSet(Unreadable) /\ u \in Nat
  <2>1. IsFiniteSet(recorded) /\ recorded \ History \in SUBSET recorded
    BY DEF HiddenOnce
  <2> QED
    BY <1>1, <2>1, FS_Subset, FS_CardinalityType, FewLines
<1>11. Cardinality(Unreadable') = IF n \in Unreadable THEN u ELSE u + 1
  BY <1>7, <1>10, FS_AddElement
<1>12. h + (IF n \in Unreadable THEN 1 ELSE 0) <= u
  BY DEF HiddenOnce, Torn
<1>13. h + 1 <= Cardinality(Unreadable')
  <2> HIDE DEF h, u
  <2>1. CASE n \in Unreadable
    BY <1>10, <1>11, <1>12, <2>1
  <2>2. CASE n \notin Unreadable
    BY <1>10, <1>11, <1>12, <2>2
  <2> QED
    BY <2>1, <2>2
<1>14. (\A j, k \in DOMAIN lines : lines[j].entry = lines[k].entry => j = k)'
  BY <1>1, <1>3, <1>6 DEF HiddenOnce
<1>15. CASE recorded' = recorded \cup {e} /\ cut' = FALSE
  <2>1. (recorded \ History)' = (recorded \ History) \cup {e}
    BY <1>8, <1>9, <1>15
  <2>2. e \notin recorded \ History
    BY DEF Unwritten
  <2>3. Cardinality(recorded' \ History') = h + 1
    BY <1>10, <2>1, <2>2, FS_AddElement
  <2>4. IsFiniteSet(recorded')
    BY <1>10, <1>15, FS_AddElement
  <2>5. ~cut' /\ ~Torn'
    BY <1>15 DEF Torn
  <2>6. (Cardinality(recorded \ History) + (IF Torn THEN 1 ELSE 0) <= Cardinality(Unreadable))'
    <3> HIDE DEF h, u
    <3>1. (h + 1) + 0 = h + 1
      BY <1>10
    <3> QED
      BY <1>13, <2>3, <2>5, <3>1
  <2> QED
    BY <1>14, <2>4, <2>5, <2>6 DEF HiddenOnce
<1>16. CASE recorded' = recorded /\ cut' = TRUE
  <2>1. (recorded \ History)' = recorded \ History
    BY <1>8, <1>16
  <2>2. Torn'
    BY <1>1, <1>5, <1>7, <1>16 DEF Torn
  <2>3. (Cardinality(recorded \ History) + (IF Torn THEN 1 ELSE 0) <= Cardinality(Unreadable))'
    BY <1>13, <2>1, <2>2
  <2>4. Len(lines') \in DOMAIN lines' /\ lines'[Len(lines')].entry \notin recorded'
    BY <1>1, <1>3, <1>5, <1>6, <1>16
  <2> QED
    BY <1>10, <1>14, <1>16, <2>3, <2>4 DEF HiddenOnce
<1> QED
  BY <1>15, <1>16

\* A line of its own.
LEMMA HiddenAppended ==
    ASSUME HiddenOnce, LinesInv, ~cut, NEW e, Unwritten(e), NEW readable \in BOOLEAN,
           lines' = Written(e, readable),
           \/ recorded' = recorded \cup {e} /\ cut' = FALSE /\ readable
           \/ recorded' = recorded /\ cut' = TRUE
    PROVE  HiddenOnce'
<1> DEFINE n == Len(lines)
           h == Cardinality(recorded \ History)
           u == Cardinality(Unreadable)
           line == [entry |-> e, readable |-> readable]
<1>1. IsSeq(lines) /\ DOMAIN lines = 1 .. n /\ n \in Nat
  BY SeqFacts DEF LinesInv
<1>2. lines' = Append(lines, line) /\ line.entry = e /\ line.readable = readable
  BY DEF Written
<1> HIDE DEF line
<1>3. /\ Len(lines') = n + 1 /\ DOMAIN lines' = 1 .. n + 1
      /\ \A k \in 1 .. n : lines'[k] = lines[k]
      /\ lines'[n + 1] = line
  BY <1>1, <1>2, AppendFacts
<1>4. n + 1 \notin 1 .. n /\ n + 1 \in 1 .. n + 1 /\ \A k \in 1 .. n + 1 : k = n + 1 \/ k \in 1 .. n
  BY <1>1
<1>5. /\ IsFiniteSet(recorded) /\ IsFiniteSet(recorded \ History) /\ h \in Nat
      /\ IsFiniteSet(Unreadable) /\ u \in Nat
  <2>1. IsFiniteSet(recorded) /\ recorded \ History \in SUBSET recorded
    BY DEF HiddenOnce
  <2> QED
    BY <1>1, <2>1, FS_Subset, FS_CardinalityType, FewLines
<1>6. h <= u
  <2>1. ~Torn
    BY DEF Torn
  <2>2. h + 0 <= u
    BY <2>1 DEF HiddenOnce
  <2> HIDE DEF h, u
  <2> QED
    BY <1>5, <2>2
<1>7. (\A j, k \in DOMAIN lines : lines[j].entry = lines[k].entry => j = k)'
  <2> SUFFICES ASSUME NEW j \in DOMAIN lines', NEW k \in DOMAIN lines', lines'[j].entry = lines'[k].entry
               PROVE  j = k
    OBVIOUS
  <2>1. \A i \in 1 .. n : lines'[i].entry # e
    BY <1>1, <1>3 DEF Unwritten
  <2>2. CASE j = n + 1 \/ k = n + 1
    BY <1>2, <1>3, <1>4, <2>1, <2>2
  <2>3. CASE j # n + 1 /\ k # n + 1
    BY <1>1, <1>3, <1>4, <2>3 DEF HiddenOnce
  <2> QED
    BY <2>2, <2>3
<1>8. History \subseteq History'
  BY <1>1, <1>3 DEF History
<1>9. CASE readable
  <2>1. e \in History'
    <3>1. lines'[n + 1].readable /\ lines'[n + 1].entry = e /\ n + 1 \in DOMAIN lines'
      BY <1>2, <1>3, <1>4, <1>9
    <3> QED
      BY <3>1 DEF History
  <2>2. Unreadable' = Unreadable
    <3>1. ASSUME NEW k PROVE k \in Unreadable' <=> k \in Unreadable
      <4>1. CASE k = n + 1
        BY <1>1, <1>2, <1>3, <1>4, <1>9, <4>1 DEF Unreadable
      <4>2. CASE k # n + 1
        BY <1>1, <1>3, <1>4, <4>2 DEF Unreadable
      <4> QED
        BY <4>1, <4>2
    <3> QED
      BY <3>1
  <2>3. recorded' \ History' \in SUBSET (recorded \ History)
    BY <1>8, <2>1
  <2>4. Cardinality(recorded' \ History') <= h /\ Cardinality(recorded' \ History') \in Nat
    BY <1>5, <2>3, FS_Subset, FS_CardinalityType
  <2>5. Cardinality(recorded' \ History') <= u
    <3> HIDE DEF h, u
    <3> QED
      BY <1>5, <1>6, <2>4
  <2>6. ~Torn'
    <3>1. Len(lines') \notin Unreadable'
      BY <1>2, <1>3, <1>9 DEF Unreadable
    <3> QED
      BY <3>1 DEF Torn
  <2>7. (Cardinality(recorded \ History) + (IF Torn THEN 1 ELSE 0) <= Cardinality(Unreadable))'
    <3> HIDE DEF u
    <3>1. Cardinality(recorded' \ History') + 0 = Cardinality(recorded' \ History')
      BY <2>4
    <3> QED
      BY <2>2, <2>5, <2>6, <3>1 DEF u
  <2>8. IsFiniteSet(recorded')
    BY <1>5, FS_AddElement
  <2>9. cut' => Len(lines') \in DOMAIN lines' /\ lines'[Len(lines')].entry \notin recorded'
    BY <1>2, <1>3, <1>4 DEF Unwritten
  <2> QED
    BY <1>7, <2>7, <2>8, <2>9 DEF HiddenOnce
<1>10. CASE ~readable
  <2>1. recorded' = recorded /\ cut' = TRUE
    BY <1>10
  <2>2. Unreadable' = Unreadable \cup {n + 1}
    <3>1. ASSUME NEW k PROVE k \in Unreadable' <=> k \in Unreadable \cup {n + 1}
      <4>1. CASE k = n + 1
        BY <1>1, <1>2, <1>3, <1>4, <1>10, <4>1 DEF Unreadable
      <4>2. CASE k # n + 1
        BY <1>1, <1>3, <1>4, <4>2 DEF Unreadable
      <4> QED
        BY <4>1, <4>2
    <3> HIDE DEF n
    <3> QED
      BY <3>1
  <2>3. n + 1 \notin Unreadable
    BY <1>1, <1>4 DEF Unreadable
  <2>4. Cardinality(Unreadable') = u + 1
    BY <1>5, <2>2, <2>3, FS_AddElement
  <2>5. recorded' \ History' \in SUBSET (recorded \ History)
    BY <1>8, <2>1
  <2>6. Cardinality(recorded' \ History') <= h /\ Cardinality(recorded' \ History') \in Nat
    BY <1>5, <2>5, FS_Subset, FS_CardinalityType
  <2>7. Torn'
    BY <1>3, <2>1, <2>2 DEF Torn
  <2>8. Cardinality(recorded' \ History') + 1 <= u + 1
    <3> HIDE DEF h, u
    <3> QED
      BY <1>5, <1>6, <2>6
  <2>9. (Cardinality(recorded \ History) + (IF Torn THEN 1 ELSE 0) <= Cardinality(Unreadable))'
    BY <2>4, <2>7, <2>8
  <2>10. Len(lines') \in DOMAIN lines' /\ lines'[Len(lines')].entry \notin recorded'
    BY <1>2, <1>3, <1>4, <2>1 DEF Unwritten
  <2> QED
    BY <1>5, <1>7, <2>1, <2>9, <2>10 DEF HiddenOnce
<1> QED
  BY <1>9, <1>10

-----------------------------------------------------------------------------
\* Each configuration is tried once

ConfigOf(e) == [strategy |-> e.strategy, corrective |-> e.corrective]

\* How many configurations p is done with.
Reached(p) == IF pc[p] \in Running THEN config[p] - 1 ELSE config[p]

ConfigInv(p) ==
    /\ config[p] \in Nat
    /\ pc[p] = "idle" => config[p] = 0
    /\ pc[p] \in Running => 0 < config[p]
    /\ 0 < config[p] => command[p].tool \in Runs /\ config[p] <= Len(Configs(p))
    /\ command[p].tool = "ablation" =>
          /\ pc[p] \notin {"failed", "plan", "audit"}
          /\ pc[p] = "done" => config[p] = Len(Configs(p))

LEMMA ConfigsSeq ==
    ASSUME command \in Scenario, NEW p \in Process, command[p].tool \in Runs
    PROVE  /\ Configs(p) \in Seq(Configuration)
           /\ \A j, k \in DOMAIN Configs(p) : Configs(p)[j] = Configs(p)[k] => j = k
  BY ScenarioAssumption DEF Configs

\* A configuration is done with.
LEMMA Tries ==
    ASSUME Kept, Grows, NEW p \in Process, ConfigInv(p), pc[p] \in Running, Len(Configs(p)) \in Nat,
           NextConfig(p, "done") \/ GiveUp(p)
    PROVE  ConfigInv(p)' /\ Reached(p)' = Reached(p) + 1
<1> USE DEF Kept, Goto
<1>1. command' = command /\ Configs(p)' = Configs(p)
  BY DEF Grows, Configs
<1>2. config[p] \in Nat /\ 0 < config[p] /\ command[p].tool \in Runs /\ config[p] <= Len(Configs(p))
  BY DEF ConfigInv
<1>3. Reached(p) + 1 = config[p]
  BY <1>2 DEF Reached
<1>4. CASE pc'[p] = "load" /\ config'[p] = config[p] + 1 /\ config[p] < Len(Configs(p))
  <2>1. pc'[p] \in Running /\ "load" \notin {"failed", "plan", "audit", "idle", "done"}
    BY <1>4 DEF Running
  <2>2. Reached(p)' = config[p]
    BY <1>2, <1>4, <2>1 DEF Reached
  <2>3. config'[p] \in Nat /\ 0 < config'[p] /\ config'[p] <= Len(Configs(p))
    BY <1>2, <1>4
  <2>4. ConfigInv(p)'
    BY <1>1, <1>2, <1>4, <2>1, <2>3 DEF ConfigInv
  <2> QED
    BY <1>3, <2>2, <2>4
<1>5. CASE pc'[p] = "done" /\ config'[p] = config[p] /\ config[p] = Len(Configs(p))
  <2>1. pc'[p] \notin Running /\ "done" \notin {"failed", "plan", "audit", "idle"}
    BY <1>5 DEF Running
  <2>2. Reached(p)' = config[p]
    BY <1>5, <2>1 DEF Reached
  <2>3. ConfigInv(p)'
    BY <1>1, <1>2, <1>5, <2>1 DEF ConfigInv
  <2> QED
    BY <1>3, <2>2, <2>3
<1>6. CASE pc'[p] = "failed" /\ config'[p] = config[p] /\ command[p].tool # "ablation"
  <2>1. pc'[p] \notin Running /\ "failed" \notin {"idle", "done"}
    BY <1>6 DEF Running
  <2>2. Reached(p)' = config[p]
    BY <1>6, <2>1 DEF Reached
  <2>3. ConfigInv(p)'
    BY <1>1, <1>2, <1>6, <2>1 DEF ConfigInv
  <2> QED
    BY <1>3, <2>2, <2>3
<1>7. CASE NextConfig(p, "done")
  <2>1. CASE config[p] < Len(Configs(p))
    BY <1>4, <1>7, <2>1 DEF NextConfig
  <2>2. CASE ~(config[p] < Len(Configs(p)))
    <3>1. config[p] = Len(Configs(p))
      BY <1>2, <2>2
    <3> QED
      BY <1>5, <1>7, <2>2, <3>1 DEF NextConfig
  <2> QED
    BY <2>1, <2>2
<1>8. CASE GiveUp(p)
  BY <1>6, <1>7, <1>8 DEF GiveUp
<1> QED
  BY <1>7, <1>8

\* The same configuration.
LEMMA Stays ==
    ASSUME Grows, NEW p, ConfigInv(p), config'[p] = config[p],
           \/ pc'[p] = pc[p]
           \/ pc[p] \in Running /\ pc'[p] \in Running
           \/ pc[p] \notin Running /\ pc'[p] \in {"plan", "audit", "failed", "done"} /\ command[p].tool # "ablation"
    PROVE  ConfigInv(p)' /\ Reached(p)' = Reached(p)
<1>1. command' = command /\ Configs(p)' = Configs(p)
  BY DEF Grows, Configs
<1>2. CASE pc'[p] = pc[p]
  BY <1>1, <1>2 DEF ConfigInv, Reached
<1>3. CASE pc[p] \in Running /\ pc'[p] \in Running
  <2>1. Running \cap {"failed", "plan", "audit", "idle", "done"} = {}
    BY DEF Running
  <2> QED
    BY <1>1, <1>3, <2>1 DEF ConfigInv, Reached
<1>4. CASE pc[p] \notin Running /\ pc'[p] \in {"plan", "audit", "failed", "done"} /\ command[p].tool # "ablation"
  <2>1. Running \cap {"failed", "plan", "audit", "done"} = {} /\ "idle" \notin {"plan", "audit", "failed", "done"}
    BY DEF Running
  <2> QED
    BY <1>1, <1>4, <2>1 DEF ConfigInv, Reached
<1> QED
  BY <1>2, <1>3, <1>4

\* A command that runs no configuration, or is done with the only one.
LEMMA Elsewhere ==
    ASSUME Kept, Grows, NEW p \in Process, PlanInv(p), ConfigInv(p), AuditTask(p) \/ ProbeStep(p)
    PROVE  /\ ConfigInv(p)' /\ Reached(p)' = Reached(p) /\ command[p].tool # "ablation"
<1> USE DEF Kept, Goto
<1>1. CASE AuditTask(p)
  <2>1. pc[p] = "audit" /\ config'[p] = config[p]
    BY <1>1 DEF AuditTask, CacheOff, Restore, SetModel, AskForMark, TakeMark, AuditFails, Doing, running
  <2>2. pc'[p] = pc[p] \/ pc'[p] = "failed"
    BY <1>1, <2>1 DEF AuditTask, CacheOff, Restore, SetModel, AskForMark, TakeMark, AuditFails, EndAudit, running
  <2>3. command[p].tool # "ablation" /\ pc[p] \notin Running
    BY <2>1 DEF PlanInv, Running
  <2> QED
    BY <2>1, <2>2, <2>3, Stays
<1>2. CASE ProbeStep(p)
  <2>1. pc[p] \in {"idle", "plan", "audit"} /\ config'[p] = config[p] /\ command[p].tool # "ablation"
    <3>1. CASE StartProbe(p)
      BY <3>1 DEF StartProbe, Runs
    <3>2. CASE MakePlan(p) \/ Report(p)
      BY <3>2 DEF MakePlan, Report, PlanInv
    <3>3. CASE GenerateCited(p) \/ GenerateNoisy(p)
      BY <3>3 DEF GenerateCited, GenerateNoisy, Expand, Doing, PlanInv, running
    <3>4. CASE Abstain(p) \/ Poison(p) \/ PoisonFacts(p) \/ ProbeRaises(p)
      BY <3>4 DEF Abstain, Poison, PoisonFacts, ProbeRaises, Rated, Doing, PlanInv, running
    <3> QED
      BY <1>2, <3>1, <3>2, <3>3, <3>4 DEF ProbeStep
  <2>2. pc'[p] \in {"plan", "audit", "failed", "done"}
    <3>1. CASE StartProbe(p) \/ MakePlan(p) \/ Report(p) \/ ProbeRaises(p)
      BY <3>1 DEF StartProbe, MakePlan, Report, ProbeRaises, EndAudit
    <3>2. CASE GenerateCited(p) \/ GenerateNoisy(p)
      BY <3>2 DEF GenerateCited, GenerateNoisy, Expand, Doing, running
    <3>3. CASE Abstain(p) \/ Poison(p) \/ PoisonFacts(p)
      BY <3>3 DEF Abstain, Poison, PoisonFacts, Rated, Doing, running
    <3> QED
      BY <1>2, <3>1, <3>2, <3>3 DEF ProbeStep
  <2>3. pc[p] \notin Running
    BY <2>1 DEF Running
  <2> QED
    BY <2>1, <2>2, <2>3, Stays
<1> QED
  BY <1>1, <1>2

\* Nothing of what was tried is forgotten.
LEMMA ConfigNext ==
    ASSUME Kept, Grows, command \in Scenario, NEW p \in Process, PlanInv(p), ConfigInv(p), Step(p)
    PROVE  ConfigInv(p)' /\ Reached(p) \in Int /\ Reached(p)' \in {Reached(p), Reached(p) + 1}
<1> USE DEF Kept, Goto
<1>1. Reached(p) \in Int /\ command' = command /\ Configs(p)' = Configs(p)
  BY DEF Reached, ConfigInv, Grows, Configs
<1>2. CASE AuditTask(p) \/ ProbeStep(p)
  BY <1>1, <1>2, Elsewhere
<1>3. CASE EvalStep(p) \/ Crash(p)
  <2>1. CASE Start(p)
    <3>1. /\ pc[p] = "idle" /\ pc'[p] = "load" /\ config'[p] = 1 /\ command[p].tool \in Runs
      BY <2>1 DEF Start
    <3>2. config[p] = 0 /\ pc[p] \notin Running /\ pc'[p] \in Running
      BY <3>1 DEF ConfigInv, Running
    <3>3. "load" \notin {"failed", "plan", "audit", "idle", "done"}
      OBVIOUS
    <3>4. 1 <= Len(Configs(p))
      <4> DEFINE s == Configs(p)
      <4>1. s \in Seq(Configuration) /\ s # << >>
        BY <3>1, ScenarioAssumption DEF Configs
      <4> HIDE DEF s
      <4>2. Len(s) \in Nat /\ Len(s) # 0
        BY <4>1
      <4> QED
        BY <4>2 DEF s
    <3>5. ConfigInv(p)'
      BY <1>1, <3>1, <3>2, <3>3, <3>4 DEF ConfigInv
    <3>6. Reached(p)' = 0 /\ Reached(p) = 0
      BY <3>1, <3>2 DEF Reached
    <3> QED
      BY <3>5, <3>6
  <2>2. CASE Generate(p) \/ EndCase(p)
    <3>1. pc[p] \in Running /\ pc'[p] \in Running /\ config'[p] = config[p]
      BY <2>2 DEF Generate, EndCase, Running
    <3> QED
      BY <1>1, <3>1, Stays
  <2>3. CASE AskJudge(p) \/ SkipJudge(p) \/ JudgeReplies(p) \/ JudgeFails(p) \/ TakeScore(p)
    <3>1. pc'[p] = pc[p] /\ config'[p] = config[p]
      BY <2>3 DEF AskJudge, SkipJudge, JudgeReplies, JudgeFails, TakeScore, running
    <3> QED
      BY <1>1, <3>1, Stays
  <2>4. CASE Load(p) \/ GenerateRaises(p) \/ JudgeRaised(p) \/ FinishRun(p) \/ RecordFails(p)
    <3>1. pc[p] \in Running
      BY <2>4 DEF Load, GenerateRaises, JudgeRaised, FinishRun, RecordFails, Running
    <3>2. CASE NextConfig(p, "done") \/ GiveUp(p)
      <4>1. command[p].tool \in Runs
        BY <3>1 DEF PlanInv
      <4>2. Len(Configs(p)) \in Nat
        <5> DEFINE s == Configs(p)
        <5>1. s \in Seq(Configuration)
          BY <4>1, ConfigsSeq
        <5> HIDE DEF s
        <5>2. Len(s) \in Nat
          BY <5>1
        <5> QED
          BY <5>2 DEF s
      <4> QED
        BY <1>1, <3>1, <3>2, <4>2, Tries
    <3>3. CASE pc'[p] = "generate" /\ config'[p] = config[p]
      <4>1. pc'[p] \in Running
        BY <3>3 DEF Running
      <4> QED
        BY <1>1, <3>1, <3>3, <4>1, Stays
    <3> QED
      BY <2>4, <3>2, <3>3 DEF Load, GenerateRaises, JudgeRaised, FinishRun, RecordFails
  <2>5. CASE FinishUnrecorded(p)
    <3>1. /\ pc[p] \in Running /\ pc'[p] = "plan" /\ config'[p] = config[p] /\ command[p].tool = "reliability"
          /\ pc'[p] \notin Running
      BY <2>5 DEF FinishUnrecorded, Running
    <3>2. "reliability" # "ablation" /\ "plan" # "idle" /\ "plan" # "done"
      OBVIOUS
    <3>3. ConfigInv(p)'
      BY <1>1, <3>1, <3>2 DEF ConfigInv
    <3>4. Reached(p)' = Reached(p) + 1
      BY <3>1 DEF Reached, ConfigInv
    <3> QED
      BY <1>1, <3>3, <3>4
  <2>6. CASE Crash(p)
    <3>1. pc'[p] = "dead" /\ config'[p] = config[p]
      BY <2>6 DEF Crash
    <3>2. "dead" \notin Running /\ "dead" \notin {"failed", "plan", "audit", "idle", "done"}
      BY DEF Running
    <3>3. ConfigInv(p)'
      BY <1>1, <3>1, <3>2 DEF ConfigInv
    <3>4. Reached(p)' = config[p] /\ config[p] \in Nat
      BY <3>1, <3>2 DEF Reached, ConfigInv
    <3>5. config[p] \in {Reached(p), Reached(p) + 1}
      BY <3>4 DEF Reached
    <3> QED
      BY <1>1, <3>3, <3>4, <3>5
  <2> QED
    BY <1>3, <2>1, <2>2, <2>3, <2>4, <2>5, <2>6 DEF EvalStep
<1> QED
  BY <1>2, <1>3 DEF Step

\* e is the entry of a configuration that its process is done with.
Tried(e) == e.process \in Process /\ \E c \in 1 .. Reached(e.process) : ConfigOf(e) = Configs(e.process)[c]

AllTried == (\A k \in DOMAIN lines : Tried(lines[k].entry)) /\ \A e \in recorded : Tried(e)

\* While p has its line to write, there is no other of that configuration.
LEMMA NotWritten ==
    ASSUME command \in Scenario, NEW p \in Process, PlanInv(p), ConfigInv(p), AllTried, pc[p] = "record"
    PROVE  /\ Unwritten(Entry(p)) /\ Entry(p).process = p
           /\ config[p] \in 1 .. Len(Configs(p)) /\ Reached(p) + 1 = config[p]
           /\ ConfigOf(Entry(p)) = Config(p) /\ Config(p) \in Configuration
<1> DEFINE e == Entry(p)
           s == Configs(p)
<1>1. pc[p] \in Running /\ command[p].tool \in Runs
  BY DEF Running, PlanInv
<1>2. config[p] \in Nat /\ 0 < config[p] /\ config[p] <= Len(s)
  BY <1>1 DEF ConfigInv
<1>3. s \in Seq(Configuration) /\ \A j, k \in DOMAIN s : s[j] = s[k] => j = k
  BY <1>1, ConfigsSeq
<1>4. e.process = p /\ e.strategy = Config(p).strategy /\ e.corrective = Config(p).corrective
  BY DEF Entry
<1> HIDE DEF e, s
<1>5. Len(s) \in Nat /\ DOMAIN s = 1 .. Len(s)
  BY <1>3
<1>6. config[p] \in DOMAIN s /\ Config(p) = s[config[p]]
  BY <1>2, <1>5 DEF Config, s
<1>7. Config(p) \in Configuration
  BY <1>3, <1>6
<1>8. ConfigOf(e) = Config(p)
  <2> DEFINE c == Config(p)
  <2> HIDE DEF c
  <2>1. c \in Configuration /\ e.strategy = c.strategy /\ e.corrective = c.corrective
    BY <1>4, <1>7 DEF c
  <2>2. c = [strategy |-> c.strategy, corrective |-> c.corrective]
    BY <2>1 DEF Configuration
  <2> QED
    BY <2>1, <2>2 DEF ConfigOf, c
<1>9. Reached(p) = config[p] - 1 /\ Reached(p) + 1 = config[p]
  BY <1>1, <1>2 DEF Reached
<1>10. ASSUME Tried(e) PROVE FALSE
  <2>1. PICK c \in 1 .. Reached(p) : ConfigOf(e) = s[c]
    BY <1>4, <1>10 DEF Tried, s
  <2>2. c \in DOMAIN s /\ c # config[p]
    BY <1>2, <1>5, <1>9, <2>1
  <2> QED
    BY <1>3, <1>6, <1>8, <2>1, <2>2
<1>11. Unwritten(e)
  BY <1>10 DEF AllTried, Unwritten
<1> QED
  BY <1>2, <1>4, <1>5, <1>6, <1>7, <1>8, <1>9, <1>11 DEF e, s

LEMMA TriedKept ==
    ASSUME command' = command, NEW e, Tried(e), Reached(e.process) \in Int,
           Reached(e.process)' \in {Reached(e.process), Reached(e.process) + 1}
    PROVE  Tried(e)'
<1>1. PICK c \in 1 .. Reached(e.process) : ConfigOf(e) = Configs(e.process)[c]
  BY DEF Tried
<1>2. c \in 1 .. Reached(e.process)'
  BY <1>1
<1>3. ConfigOf(e) = Configs(e.process)'[c]
  BY <1>1 DEF Configs
<1>4. e.process \in Process
  BY DEF Tried
<1> QED
  BY <1>2, <1>3, <1>4 DEF Tried, ConfigOf

\* A line is of a run before, or of this one.
LEMMA WrittenLines ==
    ASSUME LinesInv, cut => Len(lines) \in DOMAIN lines, NEW e, NEW readable, lines' = Written(e, readable)
    PROVE  \A k \in DOMAIN lines' : lines'[k].entry = e \/ \E j \in DOMAIN lines : lines'[k].entry = lines[j].entry
<1> DEFINE n == Len(lines)
<1>1. IsSeq(lines) /\ DOMAIN lines = 1 .. n /\ n \in Nat
  BY SeqFacts DEF LinesInv
<1>2. CASE cut
  <2>1. lines' = [lines EXCEPT ![n].readable = FALSE] /\ n \in DOMAIN lines
    BY <1>2 DEF Written
  <2>2. lines'[n].entry = lines[n].entry
    <3>1. lines'[n] = [lines[n] EXCEPT !.readable = FALSE]
      BY <2>1
    <3>2. lines[n] = [entry |-> lines[n].entry, readable |-> lines[n].readable]
      BY <2>1 DEF LinesInv
    <3> QED
      BY <3>1, <3>2
  <2>3. DOMAIN lines' = DOMAIN lines /\ \A k \in DOMAIN lines : k # n => lines'[k] = lines[k]
    BY <2>1
  <2> HIDE DEF n
  <2>4. \A k \in DOMAIN lines' : k \in DOMAIN lines /\ lines'[k].entry = lines[k].entry
    BY <2>2, <2>3
  <2> QED
    BY <2>4
<1>3. CASE ~cut
  <2> DEFINE line == [entry |-> e, readable |-> readable]
  <2>1. lines' = Append(lines, line) /\ line.entry = e
    BY <1>3 DEF Written
  <2> HIDE DEF line
  <2>2. /\ DOMAIN lines' = 1 .. n + 1
        /\ \A k \in 1 .. n : lines'[k] = lines[k]
        /\ lines'[n + 1] = line
    BY <1>1, <2>1, AppendFacts
  <2>3. \A k \in 1 .. n + 1 : k = n + 1 \/ k \in 1 .. n
    BY <1>1
  <2> QED
    BY <1>1, <2>1, <2>2, <2>3
<1> QED
  BY <1>2, <1>3

LEMMA FileWritten ==
    ASSUME Kept, LinesInv, Grows, command \in Scenario, HiddenOnce, AllTried,
           NEW p \in Process, PlanInv(p), ConfigInv(p), FinishRun(p) \/ RecordFails(p),
           \A q \in Process : q # p => Reached(q) \in Int /\ Reached(q)' = Reached(q)
    PROVE  HiddenOnce' /\ AllTried' /\ Reached(p)' = Reached(p) + 1
<1> DEFINE s == Configs(p)
<1>0. PICK e : e = Entry(p)
  OBVIOUS
<1>1. pc[p] = "record" /\ pc[p] \in Running /\ command' = command
  BY DEF FinishRun, RecordFails, Running, Grows
<1>2. /\ Unwritten(e) /\ e.process = p /\ config[p] \in 1 .. Len(s) /\ Reached(p) + 1 = config[p]
      /\ ConfigOf(e) = Config(p)
  BY <1>0, <1>1, NotWritten
<1>3. Len(s) \in Nat
  <2>1. s \in Seq(Configuration)
    BY <1>1, ConfigsSeq DEF PlanInv
  <2> HIDE DEF s
  <2> QED
    BY <2>1
<1>4. Reached(p)' = Reached(p) + 1
  BY <1>1, <1>3, Tries DEF FinishRun, RecordFails
<1>5. PICK readable \in BOOLEAN :
          /\ lines' = Written(e, readable)
          /\ \/ recorded' = recorded \cup {e} /\ cut' = FALSE /\ readable = TRUE
             \/ recorded' = recorded /\ cut' = TRUE
  <2>1. CASE FinishRun(p)
    <3>1. lines' = Written(e, TRUE) /\ recorded' = recorded \cup {e} /\ cut' = FALSE
      BY <1>0, <2>1 DEF FinishRun
    <3> QED
      BY <3>1
  <2>2. CASE RecordFails(p)
    <3>1. PICK readable \in BOOLEAN : lines' = Written(e, readable)
      BY <1>0, <2>2 DEF RecordFails
    <3>2. recorded' = recorded /\ cut' = TRUE
      BY <2>2 DEF RecordFails
    <3> QED
      BY <3>1, <3>2
  <2> QED
    BY <2>1, <2>2
<1>6. HiddenOnce'
  <2>1. CASE cut
    BY <1>2, <1>5, <2>1, HiddenMerged
  <2>2. CASE ~cut
    <3>1. readable = TRUE => readable
      OBVIOUS
    <3> QED
      BY <1>2, <1>5, <2>2, <3>1, HiddenAppended
  <2> QED
    BY <2>1, <2>2
<1>7. ASSUME NEW x, Tried(x) PROVE Tried(x)'
  <2>1. x.process \in Process
    BY <1>7 DEF Tried
  <2>2. Reached(x.process) \in Int /\ Reached(x.process)' \in {Reached(x.process), Reached(x.process) + 1}
    <3>1. CASE x.process = p
      <4>1. Reached(p) \in Int
        BY <1>1 DEF Reached, ConfigInv
      <4> QED
        BY <1>4, <3>1, <4>1
    <3>2. CASE x.process # p
      BY <2>1, <3>2
    <3> QED
      BY <3>1, <3>2
  <2> QED
    BY <1>1, <1>7, <2>2, TriedKept
<1>8. Tried(e)'
  <2>1. config[p] \in 1 .. Reached(p)'
    BY <1>2, <1>4
  <2>2. ConfigOf(e) = Configs(p)'[config[p]]
    BY <1>1, <1>2 DEF Config, Configs
  <2>4. \E c \in 1 .. Reached(e.process)' : ConfigOf(e) = Configs(e.process)'[c]
    BY <1>2, <2>1, <2>2
  <2> QED
    BY <1>2, <2>4 DEF Tried, ConfigOf
<1>9. AllTried'
  <2>1. ASSUME NEW k \in DOMAIN lines' PROVE Tried(lines[k].entry)'
    <3>1. LinesInv /\ (cut => Len(lines) \in DOMAIN lines)
      BY DEF HiddenOnce
    <3>2. lines'[k].entry = e \/ \E j \in DOMAIN lines : lines'[k].entry = lines[j].entry
      BY <1>5, <3>1, WrittenLines
    <3> DEFINE f == lines'[k].entry
    <3>3. PICK x : x = f
      OBVIOUS
    <3>4. x = e \/ Tried(x)
      BY <3>2, <3>3 DEF AllTried
    <3>5. Tried(x)'
      BY <1>7, <1>8, <3>4
    <3> QED
      BY <3>3, <3>5 DEF Tried, ConfigOf
  <2>2. ASSUME NEW x \in recorded' PROVE Tried(x)'
    <3>1. x = e \/ x \in recorded
      BY <1>5
    <3> QED
      BY <1>7, <1>8, <3>1 DEF AllTried
  <2> QED
    BY <2>1, <2>2 DEF AllTried
<1> QED
  BY <1>4, <1>6, <1>9

-----------------------------------------------------------------------------
\* The table of an ablation

\* f is what has been taken of s after each of its elements.
Collects(f, s, S) ==
    /\ f[0] = << >> /\ Among(s, S) = f[Len(s)]
    /\ \A n \in 1 .. Len(s) : f[n] = IF s[n] \in S THEN Append(f[n - 1], s[n]) ELSE f[n - 1]

LEMMA Collected ==
    ASSUME NEW T, NEW s \in Seq(T), NEW S
    PROVE  \E f \in [0 .. Len(s) -> Seq(T)] : Collects(f, s, S)
  BY AmongSteps DEF Collects

\* Nothing of nothing.
LEMMA AmongNone ==
    ASSUME NEW T, NEW s \in Seq(T)
    PROVE  Among(s, {}) \in Seq(T) /\ Len(Among(s, {})) = 0
<1> DEFINE N == Len(s)
<1>0. PICK f \in [0 .. N -> Seq(T)] : Collects(f, s, {})
  BY Collected
<1>1. /\ f[0] = << >> /\ Among(s, {}) = f[N]
      /\ \A n \in 1 .. N : f[n] = IF s[n] \in {} THEN Append(f[n - 1], s[n]) ELSE f[n - 1]
  BY <1>0 DEF Collects
<1>2. N \in Nat
  OBVIOUS
<1>3. \A n \in 1 .. N : f[n] = f[n - 1]
  BY <1>1
<1> DEFINE R == {m \in Nat : m <= N => f[m] = << >>}
<1> HIDE DEF N
<1>4. 0 \in R
  BY <1>1
<1>5. ASSUME NEW m \in Nat, m \in R PROVE m + 1 \in R
  <2> SUFFICES ASSUME m + 1 <= N PROVE f[m + 1] = << >>
    OBVIOUS
  <2>1. m + 1 \in 1 .. N /\ (m + 1) - 1 = m /\ f[m] = << >>
    BY <1>2, <1>5
  <2> QED
    BY <1>3, <2>1
<1>6. Nat \subseteq R
  <2> HIDE DEF R
  <2> QED
    BY <1>4, <1>5, Induction
<1>7. Among(s, {}) = << >>
  BY <1>1, <1>2, <1>6
<1>8. << >> \in Seq(T) /\ Len(<< >>) = 0
  OBVIOUS
<1> QED
  BY <1>7, <1>8

\* Of elements that are all different, one after those taken so far.
LEMMA AmongMore ==
    ASSUME NEW T, NEW s \in Seq(T), \A j, k \in DOMAIN s : s[j] = s[k] => j = k,
           NEW c \in 1 .. Len(s), NEW S, S \subseteq {s[i] : i \in 1 .. c - 1}
    PROVE  Among(s, S) \in Seq(T) /\ Among(s, S \cup {s[c]}) = Append(Among(s, S), s[c])
<1> DEFINE N == Len(s)
           U == S \cup {s[c]}
<1>1. N \in Nat /\ DOMAIN s = 1 .. N /\ c \in Nat /\ 0 < c /\ c <= N
  OBVIOUS
<1>f. PICK f \in [0 .. N -> Seq(T)] : Collects(f, s, S)
  BY Collected
<1>g. PICK g \in [0 .. N -> Seq(T)] : Collects(g, s, U)
  <2> HIDE DEF U
  <2> QED
    BY Collected
<1>2. /\ f[0] = << >> /\ Among(s, S) = f[N]
      /\ \A n \in 1 .. N : f[n] = IF s[n] \in S THEN Append(f[n - 1], s[n]) ELSE f[n - 1]
  BY <1>f DEF Collects
<1>3. /\ g[0] = << >> /\ Among(s, U) = g[N]
      /\ \A n \in 1 .. N : g[n] = IF s[n] \in U THEN Append(g[n - 1], s[n]) ELSE g[n - 1]
  BY <1>g DEF Collects
<1>4. \A n \in 1 .. N : n >= c => s[n] \notin S
  <2> SUFFICES ASSUME NEW n \in 1 .. N, n >= c, s[n] \in S PROVE FALSE
    OBVIOUS
  <2>1. PICK i \in 1 .. c - 1 : s[n] = s[i]
    OBVIOUS
  <2>2. i \in DOMAIN s /\ n \in DOMAIN s /\ i # n
    BY <1>1, <2>1
  <2> QED
    BY <2>1, <2>2
<1>5. \A n \in 1 .. N : n # c => s[n] # s[c]
  BY <1>1
<1>6. \A n \in 1 .. N : n < c => (s[n] \in U <=> s[n] \in S)
  BY <1>1, <1>5
<1>7. \A n \in 1 .. N : n > c => s[n] \notin U /\ s[n] \notin S
  BY <1>1, <1>4, <1>5
<1>8. s[c] \in U /\ s[c] \notin S
  BY <1>1, <1>4
<1> HIDE DEF N, U
<1> DEFINE Q == {m \in Nat : m < c => g[m] = f[m]}
           R == {m \in Nat : c + m <= N => f[c + m] = f[c] /\ g[c + m] = g[c]}
<1>9. c - 1 \in Q
  <2>1. 0 \in Q
    BY <1>2, <1>3
  <2>2. ASSUME NEW m \in Nat, m \in Q PROVE m + 1 \in Q
    <3> SUFFICES ASSUME m + 1 < c PROVE g[m + 1] = f[m + 1]
      OBVIOUS
    <3>0. m < c /\ m + 1 \in 1 .. N /\ (m + 1) - 1 = m
      BY ONLY m \in Nat, m + 1 < c, <1>1
    <3>1. m + 1 \in 1 .. N /\ (m + 1) - 1 = m /\ g[m] = f[m]
      BY <2>2, <3>0
    <3>2. /\ f[m + 1] = IF s[m + 1] \in S THEN Append(f[m], s[m + 1]) ELSE f[m]
          /\ g[m + 1] = IF s[m + 1] \in U THEN Append(g[m], s[m + 1]) ELSE g[m]
      BY <1>2, <1>3, <3>1
    <3> QED
      BY <1>6, <3>1, <3>2
  <2>3. Nat \subseteq Q
    <3> HIDE DEF Q
    <3> QED
      BY <2>1, <2>2, Induction
  <2>4. c - 1 \in Nat
    BY <1>1
  <2> QED
    BY <2>3, <2>4
<1>10. g[c - 1] = f[c - 1]
  BY <1>1, <1>9
<1>11. f[c] = f[c - 1] /\ g[c] = Append(g[c - 1], s[c])
  <2>1. c \in 1 .. N
    BY <1>1
  <2> QED
    BY <1>2, <1>3, <1>8, <2>1
<1>12. N - c \in R
  <2>1. 0 \in R
    BY <1>1
  <2>2. ASSUME NEW m \in Nat, m \in R PROVE m + 1 \in R
    <3> SUFFICES ASSUME c + (m + 1) <= N PROVE f[c + (m + 1)] = f[c] /\ g[c + (m + 1)] = g[c]
      OBVIOUS
    <3>1. c + (m + 1) \in 1 .. N /\ (c + (m + 1)) - 1 = c + m /\ c + (m + 1) > c
      BY <1>1
    <3>2. f[c + m] = f[c] /\ g[c + m] = g[c]
      BY <1>1, <2>2
    <3>3. s[c + (m + 1)] \notin U /\ s[c + (m + 1)] \notin S
      BY <1>7, <3>1
    <3> QED
      BY <1>2, <1>3, <3>1, <3>2, <3>3
  <2>3. Nat \subseteq R
    <3> HIDE DEF R
    <3> QED
      BY <2>1, <2>2, Induction
  <2>4. N - c \in Nat
    BY <1>1
  <2> QED
    BY <2>3, <2>4
<1>13. f[N] = f[c] /\ g[N] = g[c]
  <2>1. c + (N - c) = N /\ N <= N
    BY <1>1
  <2> QED
    BY <1>12, <2>1
<1>14. g[N] = Append(f[N], s[c]) /\ f[N] \in Seq(T)
  <2>1. N \in 0 .. N
    BY <1>1
  <2> QED
    BY <1>2, <1>10, <1>11, <1>13, <2>1
<1> QED
  BY <1>2, <1>3, <1>14 DEF U

-----------------------------------------------------------------------------
\* What the ablation counts

KeptConfigs(p) == {ConfigOf(e) : e \in {r \in recorded : r.process = p}}

\* A call that has raised, but whose exception has not yet been seen.
Flag(p) == IF call[p].state = "raised" THEN 1 ELSE 0

TableRows(p) ==
    /\ IsSeq(table[p])
    /\ Len(table[p]) = Len(Among(Configs(p), KeptConfigs(p)))
    /\ \A k \in DOMAIN table[p] : table[p][k].config = Among(Configs(p), KeptConfigs(p))[k]

\* Each configuration done with has its row, or a fault of its own.
TableLoss(p) == Cases(p) # << >> /\ pc[p] # "dead" => Reached(p) + Flag(p) <= Len(table[p]) + faults

TableInv(p) == command[p].tool = "ablation" => TableRows(p) /\ TableLoss(p)

LEMMA KeptTried ==
    ASSUME AllTried, NEW p \in Process
    PROVE  KeptConfigs(p) \subseteq {Configs(p)[i] : i \in 1 .. Reached(p)}
  BY DEF AllTried, Tried, KeptConfigs

LEMMA TableSame ==
    ASSUME Grows, NEW p, TableRows(p), table'[p] = table[p], KeptConfigs(p)' = KeptConfigs(p)
    PROVE  TableRows(p)'
<1> DEFINE a == Among(Configs(p), KeptConfigs(p))
<1>1. a' = a
  <2>1. Configs(p)' = Configs(p)
    BY DEF Grows, Configs
  <2> QED
    BY <2>1 DEF Among
<1>2. IsSeq(table'[p]) /\ IsSeq(table[p])'
  BY DEF TableRows, IsSeq, Values
<1> QED
  BY <1>1, <1>2 DEF TableRows

LEMMA Sums ==
    ASSUME NEW r \in Int, NEW f \in Int, NEW s \in Int, NEW g \in Int, NEW n \in Int, NEW k \in Int, NEW l \in Int,
           r + f <= n + k, s + g + k <= r + f + l
    PROVE  s + g <= n + l
  OBVIOUS

LEMMA LossSame ==
    ASSUME Grows, NEW p, TableLoss(p), table'[p] = table[p], Len(table[p]) \in Nat,
           Reached(p) \in Int, Reached(p)' \in Int, Flag(p) \in Int, Flag(p)' \in Int,
           faults \in Nat, faults' \in Nat,
           pc[p] = "dead" => pc'[p] = "dead",
           Reached(p)' + Flag(p)' + faults <= Reached(p) + Flag(p) + faults'
    PROVE  TableLoss(p)'
<1> SUFFICES ASSUME Cases(p)' # << >>, pc'[p] # "dead"
             PROVE  Reached(p)' + Flag(p)' <= Len(table'[p]) + faults'
  BY DEF TableLoss
<1>1. Cases(p) # << >> /\ pc[p] # "dead"
  BY Grown
<1>2. Reached(p) + Flag(p) <= Len(table[p]) + faults
  BY <1>1 DEF TableLoss
<1>3. Reached(p)' + Flag(p)' <= Len(table[p]) + faults'
  BY <1>2, Sums
<1> QED
  BY <1>3

LEMMA FlagType ==
    ASSUME NEW p
    PROVE  Flag(p) \in {0, 1} /\ Flag(p)' \in {0, 1}
  BY DEF Flag

\* No row is added: whatever is done with besides has a fault of its own.
LEMMA NoRow ==
    ASSUME PaysInv, Grows, NEW p \in Process, ConfigInv(p), command[p].tool = "ablation",
           faults \in Nat, EvalStep(p) \/ Crash(p), ~FinishRun(p)
    PROVE  /\ table'[p] = table[p] /\ recorded' = recorded /\ faults' \in Nat /\ faults <= faults'
           /\ (pc[p] = "dead" => pc'[p] = "dead")
           /\ \/ pc'[p] = "dead" \/ Cases(p) = << >>
              \/ Reached(p)' + Flag(p)' + faults <= Reached(p) + Flag(p) + faults'
<1> USE DEF Kept, Goto
<1>k. Kept /\ PlanInv(p) /\ CallInv(p)
  BY DEF PaysInv, EarnedInv, OwnInv
<1>r. Reached(p) \in Int
  BY DEF Reached, ConfigInv
<1>t. /\ table'[p] = table[p] /\ recorded' = recorded
      /\ faults' = faults \/ faults' = faults + 1
  <2>1. CASE Start(p) \/ Load(p) \/ Generate(p) \/ GenerateRaises(p)
    BY <2>1 DEF Start, Load, Generate, GenerateRaises, file
  <2>2. CASE AskJudge(p) \/ SkipJudge(p) \/ TakeScore(p) \/ JudgeRaised(p)
    BY <2>2 DEF AskJudge, SkipJudge, TakeScore, JudgeRaised, running, file
  <2>3. CASE JudgeReplies(p) \/ JudgeFails(p) \/ EndCase(p)
    BY <2>3 DEF JudgeReplies, JudgeFails, EndCase, running, file
  <2>4. CASE FinishUnrecorded(p) \/ RecordFails(p) \/ Crash(p)
    BY <2>4 DEF FinishUnrecorded, RecordFails, Crash, file
  <2> QED
    BY <2>1, <2>2, <2>3, <2>4 DEF EvalStep
<1>u. GenerateRaises(p) \/ RecordFails(p) \/ JudgeFails(p) => faults' = faults + 1
  BY DEF GenerateRaises, RecordFails, JudgeFails
<1>f. faults' \in Nat /\ faults <= faults'
  BY <1>t
<1>s. ASSUME Reached(p)' = Reached(p), Flag(p)' <= Flag(p) \/ faults' = faults + 1
      PROVE  Reached(p)' + Flag(p)' + faults <= Reached(p) + Flag(p) + faults'
  <2>1. Flag(p) \in {0, 1} /\ Flag(p)' \in {0, 1}
    BY FlagType
  <2>2. CASE Flag(p)' <= Flag(p)
    BY <1>r, <1>s, <1>f, <2>1, <2>2
  <2>3. CASE faults' = faults + 1
    BY <1>r, <1>s, <2>1, <2>3
  <2> QED
    BY <1>s, <2>2, <2>3
<1>1. CASE Start(p)
  <2>1. pc[p] = "idle" /\ pc'[p] = "load" /\ config'[p] = 1 /\ call' = call
    BY <1>k, <1>1 DEF Start
  <2>2. Reached(p) = 0 /\ Reached(p)' = 0 /\ Flag(p)' = Flag(p)
    BY <2>1 DEF Reached, Running, ConfigInv, Flag
  <2>3. Flag(p)' <= Flag(p)
    BY <2>2, FlagType
  <2> QED
    BY <1>t, <1>f, <1>s, <2>1, <2>2, <2>3
<1>2. CASE Generate(p) \/ EndCase(p) \/ (Load(p) /\ Cases(p) # << >>)
  <2>1. pc[p] \in Running /\ pc'[p] \in Running /\ config'[p] = config[p] /\ call' = call /\ pc[p] # "dead"
    BY <1>k, <1>2 DEF Generate, EndCase, Load, Running, judging
  <2>2. Reached(p)' = Reached(p)
    BY <2>1, Stays
  <2>3. Flag(p)' <= Flag(p)
    BY <2>1, FlagType DEF Flag
  <2> QED
    BY <1>t, <1>f, <1>s, <2>1, <2>2, <2>3
<1>3. CASE Load(p) /\ Cases(p) = << >>
  <2>1. pc[p] # "dead"
    BY <1>3 DEF Load
  <2> QED
    BY <1>3, <1>t, <1>f, <2>1
<1>4. CASE AskJudge(p) \/ SkipJudge(p) \/ JudgeReplies(p) \/ JudgeFails(p) \/ TakeScore(p)
  <2>1. pc'[p] = pc[p] /\ config'[p] = config[p]
    BY <1>k, <1>4 DEF AskJudge, SkipJudge, JudgeReplies, JudgeFails, TakeScore, running
  <2>2. Reached(p)' = Reached(p)
    BY <2>1, Stays
  <2>3. Flag(p)' <= Flag(p) \/ faults' = faults + 1
    <3>1. CASE SkipJudge(p)
      <4>1. call' = call
        BY <3>1 DEF SkipJudge, judging
      <4> QED
        BY <4>1, FlagType DEF Flag
    <3>2. CASE AskJudge(p)
      <4>1. call'[p].state \in {"scored", "asked"}
        BY <1>k, <3>2 DEF AskJudge, Ask
      <4>2. Flag(p)' = 0
        BY <4>1 DEF Flag
      <4> QED
        BY <4>2, FlagType
    <3>3. CASE JudgeReplies(p)
      <4>1. call'[p].state = "scored"
        <5>1. PICK score : call' = [call EXCEPT ![p].state = "scored", ![p].score = score, ![p].paid = TRUE]
          BY <3>3 DEF JudgeReplies, Replies
        <5>2. call'[p] = [call[p] EXCEPT !.state = "scored", !.score = score, !.paid = TRUE]
          BY <1>k, <5>1
        <5> QED
          BY <1>k, <5>2 DEF CallInv
      <4>2. Flag(p)' = 0
        BY <4>1 DEF Flag
      <4> QED
        BY <4>2, FlagType
    <3>4. CASE TakeScore(p)
      <4>1. call'[p].state = "none"
        BY <1>k, <3>4 DEF TakeScore, Returned, NoCall
      <4>2. Flag(p)' = 0
        BY <4>1 DEF Flag
      <4> QED
        BY <4>2, FlagType
    <3> QED
      BY <1>4, <1>u, <3>1, <3>2, <3>3, <3>4
  <2> QED
    BY <1>t, <1>f, <1>s, <2>1, <2>2, <2>3
<1>5. CASE GenerateRaises(p) \/ JudgeRaised(p) \/ RecordFails(p)
  <2>1. pc[p] \in Running /\ GiveUp(p) /\ pc[p] # "dead"
    BY <1>5 DEF GenerateRaises, JudgeRaised, RecordFails, Running
  <2>2. Len(Configs(p)) \in Nat
    <3> DEFINE s == Configs(p)
    <3>1. s \in Seq(Configuration)
      BY <1>k, <2>1, ConfigsSeq DEF PaysInv, PlanInv
    <3> HIDE DEF s
    <3>2. Len(s) \in Nat
      BY <3>1
    <3> QED
      BY <3>2 DEF s
  <2>3. Reached(p)' = Reached(p) + 1
    BY <1>k, <2>1, <2>2, Tries
  <2>4. \/ Flag(p)' = Flag(p) /\ faults' = faults + 1
        \/ Flag(p)' = 0 /\ Flag(p) = 1
    <3>1. CASE GenerateRaises(p) \/ RecordFails(p)
      <4>1. call' = call
        BY <3>1 DEF GenerateRaises, RecordFails, judging
      <4> QED
        BY <1>u, <3>1, <4>1 DEF Flag
    <3>2. CASE JudgeRaised(p)
      <4>1. call[p].state = "raised" /\ call'[p].state = "none"
        BY <1>k, <3>2 DEF JudgeRaised, Returned, NoCall
      <4> QED
        BY <4>1 DEF Flag
    <3> QED
      BY <1>5, <3>1, <3>2
  <2>5. Reached(p)' + Flag(p)' + faults <= Reached(p) + Flag(p) + faults'
    BY <1>r, <1>f, <2>3, <2>4, FlagType
  <2> QED
    BY <1>t, <1>f, <2>1, <2>5
<1>6. CASE FinishUnrecorded(p)
  BY <1>6 DEF FinishUnrecorded
<1>7. CASE Crash(p)
  <2>1. pc'[p] = "dead"
    BY <1>k, <1>7 DEF Crash
  <2> QED
    BY <1>t, <1>f, <2>1
<1> QED
  BY <1>1, <1>2, <1>3, <1>4, <1>5, <1>6, <1>7 DEF EvalStep

LEMMA OneMore ==
    ASSUME NEW r \in Int, NEW f \in {0, 1}, NEW n \in Nat, NEW k \in Nat, r + f <= n + k
    PROVE  (r + 1) + f <= (n + 1) + k
  OBVIOUS

\* The run that has just been recorded has the next row.
LEMMA RowAdded ==
    ASSUME PaysInv, Grows, NEW p \in Process, ConfigInv(p), AllTried, faults \in Nat,
           command[p].tool = "ablation", TableRows(p), TableLoss(p), FinishRun(p)
    PROVE  TableRows(p)' /\ TableLoss(p)' /\ faults' = faults
<1> DEFINE s == Configs(p)
           K == KeptConfigs(p)
           a == Among(s, K)
           t == table[p]
<1>0. PICK e : e = Entry(p)
  OBVIOUS
<1>r. PICK row : row = [config |-> Config(p), rbi |-> RbiCount(results[p])]
  OBVIOUS
<1>k. Kept /\ PlanInv(p)
  BY DEF PaysInv, EarnedInv, OwnInv
<1>1. /\ pc[p] = "record" /\ pc[p] \in Running /\ pc[p] # "dead" /\ call' = call /\ faults' = faults
      /\ recorded' = recorded \cup {e} /\ table'[p] = Append(t, row) /\ NextConfig(p, "done")
      /\ row.config = Config(p)
  BY <1>0, <1>r, <1>k DEF FinishRun, Running, judging, Kept
<1>2. /\ e.process = p /\ config[p] \in 1 .. Len(s) /\ Reached(p) + 1 = config[p]
      /\ ConfigOf(e) = Config(p)
  BY <1>0, <1>1, <1>k, NotWritten DEF PaysInv
<1>3. s \in Seq(Configuration) /\ \A j, k \in DOMAIN s : s[j] = s[k] => j = k
  BY <1>1, <1>k, ConfigsSeq DEF PaysInv, PlanInv
<1>4. K \subseteq {s[i] : i \in 1 .. config[p] - 1}
  <2>1. Reached(p) = config[p] - 1
    BY <1>1 DEF Reached
  <2> QED
    BY <2>1, KeptTried
<1>5. (KeptConfigs(p))' = K \cup {s[config[p]]}
  <2>1. Config(p) = s[config[p]]
    BY DEF Config
  <2>2. (KeptConfigs(p))' = {ConfigOf(x) : x \in {r \in recorded \cup {e} : r.process = p}}
    BY <1>1 DEF KeptConfigs, ConfigOf
  <2> QED
    BY <1>2, <2>1, <2>2 DEF KeptConfigs
<1>6. Configs(p)' = s
  BY DEF Grows, Configs
<1>7. a \in Seq(Configuration) /\ Among(s, K \cup {s[config[p]]}) = Append(a, Config(p))
  <2>1. Config(p) = s[config[p]]
    BY DEF Config
  <2> HIDE DEF s, K
  <2> QED
    BY <1>2, <1>3, <1>4, <2>1, AmongMore
<1>8. (Among(Configs(p), KeptConfigs(p)))' = Append(a, Config(p))
  BY <1>5, <1>6, <1>7 DEF Among
<1>9. /\ IsSeq(t) /\ Len(t) = Len(a) /\ DOMAIN t = 1 .. Len(t) /\ Len(t) \in Nat
      /\ \A k \in DOMAIN t : t[k].config = a[k]
  BY SeqFacts DEF TableRows
<1>10. IsSeq(a)
  BY <1>7, SomeSeq
<1>11. TableRows(p)'
  <2> DEFINE b == Append(a, Config(p))
             u == Append(t, row)
  <2> HIDE DEF a, t
  <2>1. /\ Len(b) = Len(a) + 1 /\ \A k \in 1 .. Len(a) : b[k] = a[k]
        /\ b[Len(a) + 1] = Config(p)
    BY <1>10, AppendFacts
  <2>2. /\ IsSeq(u) /\ Len(u) = Len(t) + 1 /\ DOMAIN u = 1 .. Len(t) + 1
        /\ \A k \in 1 .. Len(t) : u[k] = t[k]
        /\ u[Len(t) + 1] = row
    BY <1>9, AppendFacts
  <2>3. \A k \in 1 .. Len(t) + 1 : k = Len(t) + 1 \/ k \in 1 .. Len(t)
    BY <1>9
  <2> HIDE DEF b, u
  <2>4. Len(u) = Len(b) /\ \A k \in DOMAIN u : u[k].config = b[k]
    BY <1>1, <1>9, <2>1, <2>2, <2>3
  <2>5. table'[p] = u /\ (Among(Configs(p), KeptConfigs(p)))' = b
    BY <1>1, <1>8 DEF b, u
  <2>6. IsSeq(table[p])'
    BY <2>2, <2>5 DEF IsSeq, Values
  <2> QED
    BY <2>4, <2>5, <2>6 DEF TableRows
<1>12. TableLoss(p)'
  <2>1. Len(table'[p]) = Len(t) + 1
    BY <1>1, <1>9, AppendFacts
  <2>2. Len(s) \in Nat
    <3> HIDE DEF s
    <3> QED
      BY <1>3
  <2>3. Reached(p)' = Reached(p) + 1 /\ Flag(p)' = Flag(p)
    BY <1>k, <1>1, <2>2, Tries DEF Flag
  <2> SUFFICES ASSUME Cases(p)' # << >>
               PROVE  Reached(p)' + Flag(p)' <= Len(table'[p]) + faults'
    BY DEF TableLoss
  <2>4. Cases(p) # << >>
    BY Grown
  <2>5. Reached(p) + Flag(p) <= Len(t) + faults
    BY <1>1, <2>4 DEF TableLoss
  <2>6. Reached(p) \in Int
    BY DEF Reached, ConfigInv
  <2>7. (Reached(p) + 1) + Flag(p) <= (Len(t) + 1) + faults
    BY <1>9, <2>5, <2>6, FlagType, OneMore
  <2> QED
    BY <1>1, <2>1, <2>3, <2>7
<1> QED
  BY <1>1, <1>11, <1>12

\* What the step of p leaves of its own table, and of the count of faults.
LEMMA TableNext ==
    ASSUME PaysInv, Grows, NEW p \in Process, ConfigInv(p), AllTried, faults \in Nat, TableInv(p), Step(p)
    PROVE  TableInv(p)'
<1>k. Kept /\ PlanInv(p) /\ command' = command
  BY DEF PaysInv, EarnedInv, OwnInv, Grows
<1> SUFFICES ASSUME command[p].tool = "ablation" PROVE TableRows(p)' /\ TableLoss(p)'
  BY <1>k DEF TableInv
<1>1. TableRows(p) /\ TableLoss(p)
  BY DEF TableInv
<1>2. EvalStep(p) \/ Crash(p)
  BY <1>k, Elsewhere DEF Step
<1>3. CASE FinishRun(p)
  BY <1>1, <1>3, RowAdded
<1>4. CASE ~FinishRun(p)
  <2>1. /\ table'[p] = table[p] /\ recorded' = recorded /\ faults' \in Nat /\ faults <= faults'
        /\ (pc[p] = "dead" => pc'[p] = "dead")
        /\ \/ pc'[p] = "dead" \/ Cases(p) = << >>
           \/ Reached(p)' + Flag(p)' + faults <= Reached(p) + Flag(p) + faults'
    BY <1>2, <1>4, NoRow
  <2>2. TableRows(p)'
    <3>1. KeptConfigs(p)' = KeptConfigs(p)
      BY <2>1 DEF KeptConfigs, ConfigOf
    <3> QED
      BY <1>1, <2>1, <3>1, TableSame
  <2>3. TableLoss(p)'
    <3>1. CASE pc'[p] = "dead" \/ Cases(p) = << >>
      BY <3>1, Grown DEF TableLoss
    <3>2. CASE Reached(p)' + Flag(p)' + faults <= Reached(p) + Flag(p) + faults'
      <4>1. Len(table[p]) \in Nat
        BY <1>1, SeqFacts DEF TableRows
      <4>2. Reached(p) \in Int /\ Reached(p)' \in Int
        <5>1. Reached(p) \in Int /\ Reached(p)' \in {Reached(p), Reached(p) + 1}
          BY <1>k, ConfigNext DEF PaysInv
        <5> QED
          BY <5>1
      <4>3. Flag(p) \in Int /\ Flag(p)' \in Int
        BY FlagType
      <4> QED
        BY <1>1, <2>1, <3>2, <4>1, <4>2, <4>3, LossSame
    <3> QED
      BY <2>1, <3>1, <3>2
  <2> QED
    BY <2>2, <2>3
<1> QED
  BY <1>3, <1>4

\* What the steps of others leave of it.
LEMMA TableApart ==
    ASSUME Grows, NEW q, Same(q), ConfigInv(q), TableInv(q), faults \in Nat, faults' \in Nat, faults <= faults',
           \A e \in recorded' : e \in recorded \/ e.process # q, recorded \subseteq recorded'
    PROVE  ConfigInv(q)' /\ Reached(q) \in Int /\ Reached(q)' = Reached(q) /\ TableInv(q)'
<1>0. config'[q] = config[q] /\ pc'[q] = pc[q] /\ call'[q] = call[q] /\ table'[q] = table[q]
  BY DEF Same
<1>1. ConfigInv(q)' /\ Reached(q)' = Reached(q)
  BY <1>0, Stays
<1>2. Reached(q) \in Int
  BY DEF Reached, ConfigInv
<1>3. ASSUME command[q].tool = "ablation" PROVE TableRows(q)' /\ TableLoss(q)'
  <2>1. TableRows(q) /\ TableLoss(q)
    BY <1>3 DEF TableInv
  <2>2. KeptConfigs(q)' = KeptConfigs(q)
    <3>1. {r \in recorded' : r.process = q} = {r \in recorded : r.process = q}
      OBVIOUS
    <3> QED
      BY <3>1 DEF KeptConfigs, ConfigOf
  <2>3. Flag(q)' = Flag(q) /\ Flag(q) \in Int
    BY <1>0 DEF Flag
  <2>4. Reached(q)' + Flag(q)' + faults <= Reached(q) + Flag(q) + faults'
    BY <1>1, <1>2, <2>3
  <2>5. Len(table[q]) \in Nat
    BY <2>1, SeqFacts DEF TableRows
  <2> QED
    BY <1>0, <1>1, <1>2, <2>1, <2>2, <2>3, <2>4, <2>5, TableSame, LossSame
<1> QED
  BY <1>1, <1>2, <1>3 DEF TableInv, Grows

-----------------------------------------------------------------------------
\* What the file and the table keep of the runs

LEMMA Owed ==
    ASSUME NEW c \in Nat, NEW f \in {0, 1}, NEW n \in Nat, NEW k \in Nat, c + f <= n + k
    PROVE  c - n <= k
  OBVIOUS

LEMMA FaultsGrow ==
    ASSUME NEW p \in Process, Step(p)
    PROVE  faults' = faults \/ faults' = faults + 1
<1>1. CASE EvalStep(p) \/ Crash(p)
  <2>1. CASE Start(p) \/ Load(p) \/ Generate(p) \/ GenerateRaises(p)
    BY <2>1 DEF Start, Load, Generate, GenerateRaises
  <2>2. CASE AskJudge(p) \/ SkipJudge(p) \/ TakeScore(p) \/ JudgeRaised(p)
    BY <2>2 DEF AskJudge, SkipJudge, TakeScore, JudgeRaised
  <2>3. CASE JudgeReplies(p) \/ JudgeFails(p) \/ EndCase(p)
    BY <2>3 DEF JudgeReplies, JudgeFails, EndCase
  <2>4. CASE FinishRun(p) \/ FinishUnrecorded(p) \/ RecordFails(p) \/ Crash(p)
    BY <2>4 DEF FinishRun, FinishUnrecorded, RecordFails, Crash
  <2> QED
    BY <1>1, <2>1, <2>2, <2>3, <2>4 DEF EvalStep
<1>2. CASE AuditTask(p)
  BY <1>2 DEF AuditTask, CacheOff, Restore, SetModel, AskForMark, TakeMark, AuditFails
<1>3. CASE ProbeStep(p)
  BY <1>3 DEF ProbeStep, StartProbe, MakePlan, GenerateCited, GenerateNoisy, Expand, Abstain, Poison,
              PoisonFacts, Rated, ProbeRaises, Report
<1> QED
  BY <1>1, <1>2, <1>3 DEF Step

LEMMA FileLeft ==
    ASSUME NEW p \in Process, Step(p), ~FinishRun(p), ~RecordFails(p)
    PROVE  lines' = lines /\ cut' = cut /\ recorded' = recorded
<1> USE DEF file
<1>1. CASE EvalStep(p) \/ Crash(p)
  <2>1. CASE Start(p) \/ Load(p) \/ Generate(p) \/ GenerateRaises(p)
    BY <2>1 DEF Start, Load, Generate, GenerateRaises
  <2>2. CASE AskJudge(p) \/ SkipJudge(p) \/ TakeScore(p) \/ JudgeRaised(p)
    BY <2>2 DEF AskJudge, SkipJudge, TakeScore, JudgeRaised
  <2>3. CASE JudgeReplies(p) \/ JudgeFails(p) \/ EndCase(p)
    BY <2>3 DEF JudgeReplies, JudgeFails, EndCase
  <2>4. CASE FinishUnrecorded(p) \/ Crash(p)
    BY <2>4 DEF FinishUnrecorded, Crash
  <2> QED
    BY <1>1, <2>1, <2>2, <2>3, <2>4 DEF EvalStep
<1>2. CASE AuditTask(p)
  BY <1>2 DEF AuditTask, CacheOff, Restore, SetModel, AskForMark, TakeMark, AuditFails
<1>3. CASE ProbeStep(p)
  BY <1>3 DEF ProbeStep, StartProbe, MakePlan, GenerateCited, GenerateNoisy, Expand, Abstain, Poison,
              PoisonFacts, Rated, ProbeRaises, Report
<1> QED
  BY <1>1, <1>2, <1>3 DEF Step

HistoryInv ==
    /\ PaysInv /\ HiddenOnce /\ AllTried /\ faults \in Nat
    /\ \A p \in Process : ConfigInv(p) /\ TableInv(p)

LEMMA HistoryInit == Init => HistoryInv
<1> SUFFICES ASSUME Init PROVE HistoryInv
  OBVIOUS
<1>1. PaysInv /\ command \in Scenario /\ faults \in Nat /\ recorded = {} /\ ~cut
  BY PaysInit DEF Init, AuditInit, EvalInit
<1>2. DOMAIN lines = {} /\ IsSeq(lines)
  <2>1. lines \in Seq({})
    BY DEF Init, AuditInit, EvalInit
  <2> QED
    BY <2>1, NoElements
<1>3. HiddenOnce
  <2>1. recorded \ History = {} /\ Unreadable = {} /\ ~Torn
    BY <1>1, <1>2 DEF Unreadable, Torn
  <2>2. IsFiniteSet({}) /\ Cardinality({}) = 0
    BY FS_EmptySet
  <2> QED
    BY <1>1, <1>2, <2>1, <2>2 DEF HiddenOnce
<1>4. AllTried
  BY <1>1, <1>2 DEF AllTried
<1>5. ASSUME NEW p \in Process PROVE ConfigInv(p) /\ TableInv(p)
  <2>1. pc[p] = "idle" /\ config[p] = 0 /\ table[p] \in Seq({}) /\ call[p] = NoCall /\ faults = 0
    BY DEF Init, AuditInit, EvalInit, JudgeInit
  <2>2. ConfigInv(p)
    BY <2>1 DEF ConfigInv, Running
  <2>3. ASSUME command[p].tool = "ablation" PROVE TableRows(p) /\ TableLoss(p)
    <3>1. KeptConfigs(p) = {}
      BY <1>1 DEF KeptConfigs
    <3>2. IsSeq(table[p]) /\ DOMAIN table[p] = {} /\ Len(table[p]) = 0
      BY <2>1, NoElements
    <3>3. Len(Among(Configs(p), {})) = 0
      <4> DEFINE s == Configs(p)
      <4>1. s \in Seq(Configuration)
        BY <1>1, <2>3, ConfigsSeq DEF Runs
      <4> HIDE DEF s
      <4>2. Len(Among(s, {})) = 0
        BY <4>1, AmongNone
      <4> QED
        BY <4>2 DEF s
    <3>4. TableRows(p)
      BY <3>1, <3>2, <3>3 DEF TableRows
    <3>5. Reached(p) = 0 /\ Flag(p) = 0
      BY <2>1 DEF Reached, Running, Flag, NoCall
    <3>6. TableLoss(p)
      BY <2>1, <3>2, <3>5 DEF TableLoss
    <3> QED
      BY <3>4, <3>6
  <2> QED
    BY <2>2, <2>3 DEF TableInv
<1> QED
  BY <1>1, <1>3, <1>4, <1>5 DEF HistoryInv

LEMMA HistoryNext == HistoryInv /\ [Next]_all => HistoryInv'
<1> SUFFICES ASSUME HistoryInv, [Next]_all PROVE HistoryInv'
  OBVIOUS
<1>1. PaysInv' /\ Kept /\ LinesInv /\ command \in Scenario
  BY PaysNext DEF HistoryInv, PaysInv, EarnedInv
<1>2. ASSUME NEW p \in Process, Step(p) PROVE HistoryInv'
  <2>1. Grows /\ \A q \in Process : q # p => Same(q)
    BY <1>1, <1>2, Others
  <2>2. PlanInv(p) /\ ConfigInv(p) /\ TableInv(p)
    BY DEF HistoryInv, PaysInv, OwnInv
  <2>3. faults' \in Nat /\ faults <= faults'
    BY <1>2, FaultsGrow DEF HistoryInv
  <2>4. ConfigInv(p)' /\ Reached(p) \in Int /\ Reached(p)' \in {Reached(p), Reached(p) + 1}
    BY <1>1, <1>2, <2>1, <2>2, ConfigNext
  <2>5. TableInv(p)'
    BY <1>2, <2>1, <2>2, TableNext DEF HistoryInv
  <2>6. recorded \subseteq recorded' /\ \A e \in recorded' : e \in recorded \/ e.process = p
    <3>1. CASE FinishRun(p)
      <4>1. PICK e : e = Entry(p)
        OBVIOUS
      <4>2. recorded' = recorded \cup {e} /\ e.process = p
        BY <3>1, <4>1 DEF FinishRun, Entry
      <4> QED
        BY <4>2
    <3>2. CASE RecordFails(p)
      BY <3>2 DEF RecordFails
    <3>3. CASE ~FinishRun(p) /\ ~RecordFails(p)
      BY <1>2, <3>3, FileLeft
    <3> QED
      BY <3>1, <3>2, <3>3
  <2>7. ASSUME NEW q \in Process, q # p
        PROVE  ConfigInv(q)' /\ Reached(q) \in Int /\ Reached(q)' = Reached(q) /\ TableInv(q)'
    <3>1. \A e \in recorded' : e \in recorded \/ e.process # q
      BY <2>6, <2>7
    <3>2. Same(q) /\ ConfigInv(q) /\ TableInv(q) /\ faults \in Nat
      BY <2>1, <2>7 DEF HistoryInv
    <3> QED
      BY <2>1, <2>3, <2>6, <3>1, <3>2, TableApart
  <2>8. HiddenOnce' /\ AllTried'
    <3>1. CASE FinishRun(p) \/ RecordFails(p)
      BY <1>1, <2>1, <2>2, <2>7, <3>1, FileWritten DEF HistoryInv
    <3>2. CASE ~FinishRun(p) /\ ~RecordFails(p)
      <4>1. lines' = lines /\ cut' = cut /\ recorded' = recorded
        BY <1>2, <3>2, FileLeft
      <4>2. HiddenOnce'
        <5>1. History' = History /\ Unreadable' = Unreadable /\ Torn' = Torn
          BY <4>1 DEF History, Unreadable, Torn
        <5> QED
          BY <4>1, <5>1 DEF HiddenOnce, HistoryInv
      <4>3. ASSUME NEW e, Tried(e) PROVE Tried(e)'
        <5>1. e.process \in Process /\ command' = command
          BY <2>1, <4>3 DEF Tried, Grows
        <5>2. Reached(e.process) \in Int /\ Reached(e.process)' \in {Reached(e.process), Reached(e.process) + 1}
          BY <2>4, <2>7, <5>1
        <5> QED
          BY <4>3, <5>1, <5>2, TriedKept
      <4>4. AllTried'
        <5>1. ASSUME NEW k \in DOMAIN lines' PROVE Tried(lines[k].entry)'
          <6>1. PICK x : x = lines[k].entry
            OBVIOUS
          <6>2. Tried(x)'
            BY <4>1, <4>3, <5>1, <6>1 DEF HistoryInv, AllTried
          <6> QED
            BY <4>1, <6>1, <6>2 DEF Tried, ConfigOf
        <5>2. ASSUME NEW x \in recorded' PROVE Tried(x)'
          BY <4>1, <4>3, <5>2 DEF HistoryInv, AllTried
        <5> QED
          BY <5>1, <5>2 DEF AllTried
      <4> QED
        BY <4>2, <4>4
    <3> QED
      BY <3>1, <3>2
  <2>9. \A q \in Process : ConfigInv(q)' /\ TableInv(q)'
    BY <2>4, <2>5, <2>7
  <2> QED
    BY <1>1, <2>3, <2>8, <2>9 DEF HistoryInv
<1>3. CASE UNCHANGED all
  <2>1. Grows /\ \A q \in Process : Same(q)
    BY <1>3 DEF Grows, Same, all, vars, judging, running, file, auditing
  <2>2. lines' = lines /\ cut' = cut /\ recorded' = recorded /\ faults' = faults
    BY <1>3 DEF all, vars, file
  <2>3. faults \in Nat /\ faults' \in Nat /\ faults <= faults'
    BY <2>2 DEF HistoryInv
  <2>4. ASSUME NEW q \in Process
        PROVE  ConfigInv(q)' /\ Reached(q) \in Int /\ Reached(q)' = Reached(q) /\ TableInv(q)'
    <3>1. Same(q) /\ ConfigInv(q) /\ TableInv(q)
      BY <2>1 DEF HistoryInv
    <3> QED
      BY <2>1, <2>2, <2>3, <3>1, TableApart
  <2>5. HiddenOnce'
    <3>1. History' = History /\ Unreadable' = Unreadable /\ Torn' = Torn
      BY <2>2 DEF History, Unreadable, Torn
    <3> QED
      BY <2>2, <3>1 DEF HiddenOnce, HistoryInv
  <2>6. ASSUME NEW e, Tried(e) PROVE Tried(e)'
    <3>1. e.process \in Process /\ command' = command
      BY <2>1, <2>6 DEF Tried, Grows
    <3> QED
      BY <2>4, <2>6, <3>1, TriedKept
  <2>7. AllTried'
    <3>1. ASSUME NEW k \in DOMAIN lines' PROVE Tried(lines[k].entry)'
      <4>1. PICK x : x = lines[k].entry
        OBVIOUS
      <4>2. Tried(x)'
        BY <2>2, <2>6, <3>1, <4>1 DEF HistoryInv, AllTried
      <4> QED
        BY <2>2, <4>1, <4>2 DEF Tried, ConfigOf
    <3>2. ASSUME NEW x \in recorded' PROVE Tried(x)'
      BY <2>2, <2>6, <3>2 DEF HistoryInv, AllTried
    <3> QED
      BY <3>1, <3>2 DEF AllTried
  <2> QED
    BY <1>1, <2>3, <2>4, <2>5, <2>7 DEF HistoryInv
<1> QED
  BY <1>2, <1>3 DEF Next, Finished

\* However many processes append, and wherever an append breaks off: no run is in
\* the file twice, and each line that cannot be read hides at most one run whose
\* append completed ("a corrupted line at the tail should not hide the intact
\* history above it", history.py load_history; record_run).
THEOREM LossTheorem == Spec => []LossBounded
<1>1. HistoryInv => LossBounded
  <2> SUFFICES ASSUME HistoryInv PROVE LossBounded
    OBVIOUS
  <2>1. IsSeq(lines) /\ HiddenOnce
    BY DEF HistoryInv, PaysInv, EarnedInv, LinesInv
  <2>2. IsFiniteSet(recorded) /\ recorded \ History \in SUBSET recorded
    BY <2>1 DEF HiddenOnce
  <2> DEFINE h == Cardinality(recorded \ History)
             u == Cardinality(Unreadable)
  <2>3. h \in Nat /\ u \in Nat
    BY <2>1, <2>2, FS_Subset, FS_CardinalityType, FewLines
  <2>4. h + (IF Torn THEN 1 ELSE 0) <= u
    BY <2>1 DEF HiddenOnce
  <2> HIDE DEF h, u
  <2>5. h <= u
    BY <2>3, <2>4
  <2> QED
    BY <2>1, <2>5 DEF LossBounded, HiddenOnce, Unreadable, h, u
<1> QED
  BY <1>1, HistoryInit, HistoryNext, PTL DEF Spec

\* Whichever configurations raise, and wherever: the table of an ablation has a
\* row for each run whose append to the history completed, in the order of the
\* configurations and for no other, and it ends with all of them tried, at most as many missing as
\* something failed (ablation.py run_ablation).
THEOREM TableTheorem == Spec => []TableRecorded
<1>1. HistoryInv => TableRecorded
  <2> SUFFICES ASSUME HistoryInv, NEW p \in Process, command[p].tool = "ablation"
               PROVE  /\ [k \in DOMAIN table[p] |-> table[p][k].config] = Among(Configs(p), KeptConfigs(p))
                      /\ pc[p] # "failed"
                      /\ (pc[p] = "done" /\ Cases(p) # << >>) => Len(Configs(p)) - Len(table[p]) <= faults
    BY DEF TableRecorded, KeptConfigs, ConfigOf
  <2>1. ConfigInv(p) /\ TableRows(p) /\ TableLoss(p) /\ AllTried /\ faults \in Nat /\ command \in Scenario
    BY DEF HistoryInv, TableInv, PaysInv
  <2> DEFINE s == Configs(p)
             a == Among(s, KeptConfigs(p))
             t == [k \in DOMAIN table[p] |-> table[p][k].config]
  <2>2. s \in Seq(Configuration)
    BY <2>1, ConfigsSeq DEF Runs
  <2>3. a \in Seq(Configuration)
    <3> DEFINE S == KeptConfigs(p)
    <3> HIDE DEF s, S
    <3>1. Among(s, S) \in Seq(Configuration)
      BY <2>2, AmongSeq
    <3> QED
      BY <3>1 DEF S
  <2>4. t = a
    <3>1. /\ DOMAIN table[p] = 1 .. Len(table[p]) /\ Len(table[p]) = Len(a)
          /\ \A k \in DOMAIN table[p] : table[p][k].config = a[k]
      BY <2>1, SeqFacts DEF TableRows
    <3> HIDE DEF a
    <3>2. a = [k \in 1 .. Len(a) |-> a[k]]
      BY <2>3
    <3> QED
      BY <3>1, <3>2
  <2>5. pc[p] # "failed"
    BY <2>1 DEF ConfigInv
  <2>6. ASSUME pc[p] = "done", Cases(p) # << >> PROVE Len(s) - Len(table[p]) <= faults
    <3>1. config[p] = Len(s) /\ config[p] \in Nat
      BY <2>1, <2>6 DEF ConfigInv
    <3>2. Reached(p) = Len(s)
      BY <2>6, <3>1 DEF Reached, Running
    <3>3. Reached(p) + Flag(p) <= Len(table[p]) + faults
      BY <2>1, <2>6 DEF TableLoss
    <3>4. Len(table[p]) \in Nat
      BY <2>1, SeqFacts DEF TableRows
    <3> QED
      BY <2>1, <3>1, <3>2, <3>3, <3>4, FlagType, Owed
  <2> QED
    BY <2>4, <2>5, <2>6
<1> QED
  BY <1>1, HistoryInit, HistoryNext, PTL DEF Spec

-----------------------------------------------------------------------------
\* Kappa

\* The table of two raters: a of n cases passed by both, b by the first alone, c by
\* the second alone, d by none.
LEMMA KappaSquare ==
    ASSUME NEW a \in Nat, NEW b \in Nat, NEW c \in Nat, NEW d \in Nat
    PROVE  LET n == a + b + c + d
               expected == (a + b) * (a + c) + (n - (a + b)) * (n - (a + c))
           IN  /\ n * n - expected = (a + b) * (b + d) + (a + c) * (c + d)
               /\ n * (a + d) - expected = 2 * (a * d - b * c)
  OBVIOUS

LEMMA KappaTotal ==
    ASSUME NEW a \in Nat, NEW b \in Nat, NEW c \in Nat, NEW d \in Nat,
           (a + b) * (b + d) + (a + c) * (c + d) = 0
    PROVE  a * d - b * c = 0
  OBVIOUS

LEMMA Apart ==
    ASSUME NEW S, IsFiniteSet(S), NEW T, IsFiniteSet(T), S \cap T = {}
    PROVE  Cardinality(S \cup T) = Cardinality(S) + Cardinality(T)
<1>1. Cardinality(S) \in Nat /\ Cardinality(T) \in Nat /\ Cardinality({}) = 0
  BY FS_CardinalityType, FS_EmptySet
<1>2. Cardinality(S \cup T) = Cardinality(S) + Cardinality(T) - Cardinality(S \cap T)
  BY FS_Union
<1>3. Cardinality(S \cap T) = 0
  BY <1>1
<1> QED
  BY <1>1, <1>2, <1>3

\* Cases on which the two raters say x and y.
Said(judge, truth, x, y) == {k \in DOMAIN judge : judge[k] = x /\ truth[k] = y}

\* cohens_kappa computes the closed form, also when chance agreement is total.
LEMMA KappaOnTable ==
    ASSUME NEW judge, IsSeq(judge), NEW truth, IsSeq(truth), Len(judge) = Len(truth),
           \A k \in DOMAIN judge : judge[k] \in BOOLEAN /\ truth[k] \in BOOLEAN
    PROVE  OnTable(CohensKappa(judge, truth), judge, truth)
<1> DEFINE n == Len(judge)
           D == 1 .. n
           TT == Said(judge, truth, TRUE, TRUE)
           TF == Said(judge, truth, TRUE, FALSE)
           FT == Said(judge, truth, FALSE, TRUE)
           FF == Said(judge, truth, FALSE, FALSE)
           a == Cardinality(TT)
           b == Cardinality(TF)
           c == Cardinality(FT)
           d == Cardinality(FF)
<1>1. DOMAIN judge = D /\ DOMAIN truth = D /\ n \in Nat
  BY SeqFacts
<1>2. IsFiniteSet(D) /\ Cardinality(D) = n
  <2>1. 1 \in Int /\ n \in Int
    BY <1>1
  <2>2. IsFiniteSet(1 .. n) /\ Cardinality(1 .. n) = IF 1 > n THEN 0 ELSE n - 1 + 1
    BY <2>1, FS_Interval
  <2> HIDE DEF n
  <2> QED
    BY <1>1, <2>2
<1>3. ASSUME NEW S, S \in SUBSET D PROVE IsFiniteSet(S) /\ Cardinality(S) \in Nat
  BY <1>2, <1>3, FS_Subset, FS_CardinalityType
<1>4. TT \in SUBSET D /\ TF \in SUBSET D /\ FT \in SUBSET D /\ FF \in SUBSET D
  BY <1>1 DEF Said
<1>5. a \in Nat /\ b \in Nat /\ c \in Nat /\ d \in Nat
  BY <1>3, <1>4
<1> DEFINE A == {k \in DOMAIN judge : judge[k]}
           B == {k \in DOMAIN truth : truth[k]}
           E == {k \in DOMAIN judge : judge[k] = truth[k]}
<1>6. /\ A = TT \cup TF /\ TT \cap TF = {}
      /\ B = TT \cup FT /\ TT \cap FT = {}
      /\ E = TT \cup FF /\ TT \cap FF = {}
      /\ D = A \cup (FT \cup FF) /\ A \cap (FT \cup FF) = {} /\ FT \cap FF = {}
  BY <1>1 DEF Said
<1> HIDE DEF TT, TF, FT, FF, A, B, E, D
<1>7. Cardinality(A) = a + b /\ Cardinality(B) = a + c /\ Cardinality(E) = a + d
  BY <1>3, <1>4, <1>6, Apart
<1>8. n = a + b + c + d
  <2>1. Cardinality(FT \cup FF) = c + d
    BY <1>3, <1>4, <1>6, Apart
  <2>2. FT \cup FF \in SUBSET D /\ A \in SUBSET D
    BY <1>4, <1>6
  <2>3. Cardinality(D) = Cardinality(A) + Cardinality(FT \cup FF)
    BY <1>3, <1>6, <2>2, Apart
  <2> HIDE DEF n, a, b, c, d
  <2> QED
    BY <1>2, <1>5, <1>7, <2>1, <2>3
<1> DEFINE observed == n * Cardinality(E)
           expected == Cardinality(A) * Cardinality(B) + (n - Cardinality(A)) * (n - Cardinality(B))
           kappa == CohensKappa(judge, truth)
<1>9. kappa = IF expected = n * n THEN <<IF observed = n * n THEN 1 ELSE 0, 1>>
              ELSE <<observed - expected, n * n - expected>>
  BY DEF CohensKappa, A, B, E
<1>10. OnTable(kappa, judge, truth) <=>
           kappa[1] * ((a + b) * (b + d) + (a + c) * (c + d)) = 2 * (a * d - b * c) * kappa[2]
  BY DEF OnTable, Said, TT, TF, FT, FF
<1> HIDE DEF a, b, c, d, n, kappa
<1> DEFINE spread == (a + b) * (b + d) + (a + c) * (c + d)
           lift == a * d - b * c
<1>15. kappa[1] * spread = (2 * lift) * kappa[2] => OnTable(kappa, judge, truth)
  BY <1>10
<1>11. n * n - expected = spread /\ observed - expected = 2 * lift /\ spread \in Int /\ lift \in Int
       /\ expected \in Int /\ observed \in Int /\ n * n \in Int
  BY <1>5, <1>7, <1>8, KappaSquare
<1>12. spread = 0 => lift = 0
  BY <1>5, KappaTotal
<1> HIDE DEF expected, observed
<1>13. CASE expected = n * n
  <2>1. spread = 0
    <3> HIDE DEF spread
    <3> QED
      BY <1>11, <1>13
  <2>2. lift = 0
    BY <1>12, <2>1
  <2>3. kappa[1] \in {0, 1} /\ kappa[2] = 1
    BY <1>9, <1>13
  <2> HIDE DEF spread, lift
  <2>4. kappa[1] * spread = (2 * lift) * kappa[2]
    BY <2>1, <2>2, <2>3
  <2> QED
    BY <1>15, <2>4 DEF kappa
<1>14. CASE expected # n * n
  <2>1. kappa[1] = observed - expected /\ kappa[2] = n * n - expected
    BY <1>9, <1>14
  <2> HIDE DEF spread, lift
  <2>2. kappa[1] = 2 * lift /\ kappa[2] = spread
    BY <1>11, <2>1
  <2>3. kappa[1] * spread = (2 * lift) * kappa[2]
    BY <1>11, <2>2
  <2> QED
    BY <1>15, <2>3 DEF kappa
<1> QED
  BY <1>13, <1>14 DEF kappa

LEMMA AmongAll ==
    ASSUME NEW T, NEW s \in Seq(T), NEW S, \A k \in DOMAIN s : s[k] \in S
    PROVE  Among(s, S) \in Seq(T) /\ Len(Among(s, S)) = Len(s) /\ \A k \in DOMAIN s : Among(s, S)[k] = s[k]
<1> DEFINE N == Len(s)
<1>1. PICK f \in [0 .. N -> Seq(T)] : Collects(f, s, S)
  BY AmongSteps DEF Collects
<1>2. /\ f[0] = << >> /\ Among(s, S) = f[N]
      /\ \A n \in 1 .. N : f[n] = IF s[n] \in S THEN Append(f[n - 1], s[n]) ELSE f[n - 1]
  BY <1>1 DEF Collects
<1>3. N \in Nat /\ DOMAIN s = 1 .. N /\ \A n \in 1 .. N : s[n] \in T /\ s[n] \in S
  OBVIOUS
<1> DEFINE Whole1(n) == Len(f[n]) = n /\ \A k \in 1 .. n : f[n][k] = s[k]
           R == {n \in Nat : n <= N => Whole1(n)}
<1>4. 0 \in R
  <2>1. Len(f[0]) = 0
    BY <1>2
  <2> QED
    BY <2>1
<1>5. ASSUME NEW n \in Nat, n \in R PROVE n + 1 \in R
  <2> SUFFICES ASSUME n + 1 <= N PROVE Whole1(n + 1)
    OBVIOUS
  <2>1. n \in 0 .. N /\ n + 1 \in 1 .. N /\ (n + 1) - 1 = n /\ Whole1(n)
    BY <1>3, <1>5
  <2>2. f[n] \in Seq(T) /\ s[n + 1] \in T
    BY <1>3, <2>1
  <2>3. f[n + 1] = Append(f[n], s[n + 1])
    BY <1>2, <1>3, <2>1
  <2> HIDE DEF N, R
  <2>4. Len(f[n + 1]) = n + 1
    BY <2>1, <2>2, <2>3
  <2>5. ASSUME NEW k \in 1 .. (n + 1) PROVE f[n + 1][k] = s[k]
    <3>1. CASE k = n + 1
      BY <2>1, <2>2, <2>3, <3>1
    <3>2. CASE k # n + 1
      <4>1. k \in 1 .. n
        BY <3>2
      <4> QED
        BY <2>1, <2>2, <2>3, <4>1
    <3> QED
      BY <3>1, <3>2
  <2> QED
    BY <2>4, <2>5
<1>6. Whole1(N)
  <2> HIDE DEF Whole1
  <2>1. Nat \subseteq R
    <3> HIDE DEF R
    <3> QED
      BY <1>4, <1>5, Induction
  <2> QED
    BY <1>3, <2>1
<1>7. f[N] \in Seq(T)
  BY <1>3
<1> QED
  BY <1>2, <1>3, <1>6, <1>7

\* What a report takes of the marks.
Taken(p, use, metric, dress) ==
    Among(marks[p], {m \in ToSet(marks[p]) : m.use = use /\ m.subject.metric = metric /\ m.subject.answer[3] = dress})

LEMMA ScoresListed ==
    ASSUME NEW p, IsSeq(marks[p]), NEW use, NEW metric, NEW dress
    PROVE  LET t == Taken(p, use, metric, dress)
               s == ScoresFor(p, use, metric, dress)
           IN  /\ IsSeq(t) /\ IsSeq(s) /\ Len(s) = Len(t)
               /\ \A k \in DOMAIN t : s[k] = t[k].score
<1> DEFINE t == Taken(p, use, metric, dress)
           s == ScoresFor(p, use, metric, dress)
           S == {m \in ToSet(marks[p]) : m.use = use /\ m.subject.metric = metric /\ m.subject.answer[3] = dress}
           T == Values(marks[p])
<1>1. marks[p] \in Seq(T)
  BY DEF IsSeq
<1>2. t = Among(marks[p], S)
  BY DEF Taken
<1>3. s = [k \in DOMAIN t |-> t[k].score]
  BY DEF ScoresFor, Taken
<1> HIDE DEF t, s, S, T
<1>4. t \in Seq(T)
  BY <1>1, <1>2, AmongSeq
<1>5. IsSeq(t) /\ DOMAIN t = 1 .. Len(t) /\ Len(t) \in Nat
  BY <1>4, SomeSeq
<1>6. s = [k \in 1 .. Len(t) |-> s[k]] /\ \A k \in DOMAIN t : s[k] = t[k].score
  BY <1>3, <1>5
<1>7. IsSeq(s) /\ Len(s) = Len(t)
  BY <1>5, <1>6, Listed
<1> QED
  BY <1>5, <1>6, <1>7 DEF t, s

\* Verdicts of scores.
PassedOf(s) == [k \in DOMAIN s |-> s[k] >= Threshold]

LEMMA PassedListed ==
    ASSUME NEW s, IsSeq(s)
    PROVE  /\ IsSeq(PassedOf(s)) /\ Len(PassedOf(s)) = Len(s) /\ DOMAIN PassedOf(s) = DOMAIN s
           /\ \A k \in DOMAIN s : PassedOf(s)[k] = (s[k] >= Threshold) /\ PassedOf(s)[k] \in BOOLEAN
<1> DEFINE v == PassedOf(s)
<1>1. DOMAIN s = 1 .. Len(s) /\ Len(s) \in Nat
  BY SeqFacts
<1>2. v = [k \in 1 .. Len(s) |-> v[k]] /\ \A k \in DOMAIN s : v[k] = (s[k] >= Threshold) /\ v[k] \in BOOLEAN
  BY <1>1 DEF PassedOf
<1> HIDE DEF v
<1>3. IsSeq(v) /\ Len(v) = Len(s)
  BY <1>1, <1>2, Listed
<1>4. DOMAIN v = DOMAIN s
  BY <1>1, <1>3, SeqFacts
<1> QED
  BY <1>2, <1>3, <1>4 DEF v

LEMMA VerdictsPassed ==
    ASSUME NEW p, NEW use
    PROVE  Verdicts(p, use) = PassedOf(ScoresFor(p, use, "correctness", "plain"))
  BY DEF Verdicts, PassedOf

\* Kappa against the answers known to be right and wrong.
LEMMA KappaKnown ==
    ASSUME NEW p, IsSeq(marks[p])
    PROVE  LET right == Verdicts(p, "right")
               wrong == Verdicts(p, "wrong")
           IN  OnTable(Kappa(p).kappa, right \o wrong, [k \in DOMAIN (right \o wrong) |-> k <= Len(right)])
<1> DEFINE r == ScoresFor(p, "right", "correctness", "plain")
           w == ScoresFor(p, "wrong", "correctness", "plain")
           right == Verdicts(p, "right")
           wrong == Verdicts(p, "wrong")
           N == Len(r) + Len(w)
           judge == [k \in 1 .. Len(r) + Len(w) |-> (r \o w)[k] >= Threshold]
           truth == [k \in 1 .. Len(r) + Len(w) |-> k <= Len(r)]
           both == right \o wrong
<1>1. Kappa(p).kappa = CohensKappa(judge, truth)
  BY DEF Kappa, KappaStats
<1>2. right = PassedOf(r) /\ wrong = PassedOf(w) /\ IsSeq(r) /\ IsSeq(w)
  BY VerdictsPassed, ScoresListed
<1> HIDE DEF r, w, right, wrong
<1>3. /\ DOMAIN r = 1 .. Len(r) /\ Len(r) \in Nat /\ DOMAIN w = 1 .. Len(w) /\ Len(w) \in Nat
      /\ IsSeq(right) /\ Len(right) = Len(r) /\ IsSeq(wrong) /\ Len(wrong) = Len(w)
      /\ \A k \in DOMAIN r : right[k] = (r[k] >= Threshold) /\ right[k] \in BOOLEAN
      /\ \A k \in DOMAIN w : wrong[k] = (w[k] >= Threshold) /\ wrong[k] \in BOOLEAN
  BY <1>2, PassedListed, SeqFacts
<1>4. /\ IsSeq(both) /\ Len(both) = N /\ DOMAIN both = 1 .. N /\ N \in Nat
      /\ \A k \in 1 .. N : both[k] = ((r \o w)[k] >= Threshold) /\ both[k] \in BOOLEAN
  <2> DEFINE c == r \o w
  <2>1. /\ \A k \in 1 .. Len(r) : c[k] = r[k]
        /\ \A k \in 1 .. Len(r) + Len(w) : k > Len(r) => c[k] = w[k - Len(r)]
    BY <1>2, ConcatFacts
  <2>2. /\ IsSeq(both) /\ Len(both) = Len(right) + Len(wrong) /\ DOMAIN both = 1 .. Len(right) + Len(wrong)
        /\ \A k \in 1 .. Len(right) : both[k] = right[k]
        /\ \A k \in 1 .. Len(right) + Len(wrong) : k > Len(right) => both[k] = wrong[k - Len(right)]
    BY <1>3, ConcatFacts
  <2> HIDE DEF c, both
  <2>3. ASSUME NEW k \in 1 .. N PROVE both[k] = (c[k] >= Threshold) /\ both[k] \in BOOLEAN
    <3>1. CASE k <= Len(r)
      BY <1>3, <2>1, <2>2, <3>1
    <3>2. CASE k > Len(r)
      <4>1. k - Len(r) \in 1 .. Len(w)
        BY <1>3, <3>2
      <4>2. both[k] = wrong[k - Len(r)] /\ c[k] = w[k - Len(r)]
        BY <1>3, <2>1, <2>2, <3>2
      <4> QED
        BY <1>3, <4>1, <4>2
    <3> QED
      BY <1>3, <3>1, <3>2
  <2> QED
    BY <1>3, <2>2, <2>3 DEF c
<1> HIDE DEF both
<1>5. judge = both
  <2>1. both = [k \in 1 .. N |-> both[k]]
    BY <1>4 DEF IsSeq
  <2> QED
    BY <1>4, <2>1
<1>6. truth = [k \in DOMAIN both |-> k <= Len(right)]
  BY <1>3, <1>4
<1>7. IsSeq(truth) /\ Len(truth) = N /\ \A k \in 1 .. N : truth[k] \in BOOLEAN
  <2>1. truth = [k \in 1 .. N |-> truth[k]] /\ \A k \in 1 .. N : truth[k] \in BOOLEAN
    OBVIOUS
  <2> HIDE DEF truth, N
  <2> QED
    BY <1>4, <2>1, Listed
<1>8. \A k \in DOMAIN both : both[k] \in BOOLEAN /\ truth[k] \in BOOLEAN
  <2> HIDE DEF truth, N
  <2> QED
    BY <1>4, <1>7
<1>9. OnTable(CohensKappa(both, truth), both, truth)
  <2> HIDE DEF truth, N
  <2> QED
    BY <1>4, <1>7, <1>8, KappaOnTable
<1> HIDE DEF judge, truth
<1> QED
  BY <1>1, <1>5, <1>6, <1>9 DEF both, right, wrong

LEMMA LesserOf ==
    ASSUME NEW a \in Nat, NEW b \in Nat
    PROVE  Min({a, b}) \in {a, b}
<1>1. \E x \in {a, b} : \A y \in {a, b} : x <= y
  OBVIOUS
<1> QED
  BY <1>1 DEF Min

-----------------------------------------------------------------------------
\* The items a person labelled

LEMMA AmongIn ==
    ASSUME NEW T, NEW s \in Seq(T), NEW S
    PROVE  Among(s, S) \in Seq(T \cap S)
<1> DEFINE N == Len(s)
           Z == Seq(T \cap S)
<1>1. PICK f \in [0 .. N -> Seq(T)] : Collects(f, s, S)
  BY AmongSteps DEF Collects
<1>2. /\ f[0] = << >> /\ Among(s, S) = f[N]
      /\ \A n \in 1 .. N : f[n] = IF s[n] \in S THEN Append(f[n - 1], s[n]) ELSE f[n - 1]
  BY <1>1 DEF Collects
<1>3. N \in Nat /\ << >> \in Z /\ \A n \in 1 .. N : s[n] \in T
  OBVIOUS
<1> DEFINE R == {n \in Nat : n <= N => f[n] \in Z}
<1>4. 0 \in R
  BY <1>2, <1>3
<1>5. ASSUME NEW n \in Nat, n \in R PROVE n + 1 \in R
  <2> SUFFICES ASSUME n + 1 <= N PROVE f[n + 1] \in Z
    OBVIOUS
  <2>1. n + 1 \in 1 .. N /\ (n + 1) - 1 = n /\ f[n] \in Seq(T \cap S)
    BY <1>3, <1>5
  <2>2. f[n + 1] = IF s[n + 1] \in S THEN Append(f[n], s[n + 1]) ELSE f[n]
    BY <1>2, <2>1
  <2>3. s[n + 1] \in T
    BY <1>3, <2>1
  <2>4. s[n + 1] \in S => Append(f[n], s[n + 1]) \in Seq(T \cap S)
    BY <2>1, <2>3
  <2> HIDE DEF N
  <2> QED
    BY <2>1, <2>2, <2>4
<1>6. Nat \subseteq R
  <2> HIDE DEF R
  <2> QED
    BY <1>4, <1>5, Induction
<1> HIDE DEF Z
<1>7. f[N] \in Z
  <2> HIDE DEF N
  <2> QED
    BY <1>3, <1>6
<1> QED
  BY <1>2, <1>7 DEF Z

\* A judge task of score_human_kappa.
HumanTask(t) ==
    t.do = "judge" /\ t.use = "human" /\ t.subject.metric = "correctness" /\ t.subject.answer[3] = "plain"

LEMMA SampleTasks ==
    ASSUME NEW cases, IsSeq(cases), NEW n \in Nat
    PROVE  LET items == LabelSample(cases, n)
           IN  IsSeq(items) /\ \A k \in DOMAIN items : HumanTask(items[k])
<1> DEFINE m == Min({n, Len(cases)})
           x == [k \in 1 .. m |-> JudgeTask("human", "correctness", cases[k], Whole(cases[k]), "plain")]
           y == [k \in 1 .. m |-> JudgeTask("human", "correctness", cases[k], CrossPaired(cases, k), "plain")]
           s == [k \in 1 .. m |-> <<x[k], y[k]>>]
           items == LabelSample(cases, n)
           Z == {x[k] : k \in 1 .. m} \cup {y[k] : k \in 1 .. m}
<1>1. m \in Nat
  BY SeqFacts, LesserOf
<1>2. items = FlattenSeq(s)
  BY DEF LabelSample
<1>3. \A t \in Z : HumanTask(t)
  BY DEF JudgeTask, HumanTask
<1>4. \A k \in 1 .. m : x[k] \in Z /\ y[k] \in Z
  OBVIOUS
<1> HIDE DEF x, y, Z, items
<1>5. \A k \in 1 .. m : s[k] \in Seq(Z)
  BY <1>4
<1>6. s \in Seq(Seq(Z))
  <2> DEFINE V == Seq(Z)
  <2>1. \A k \in 1 .. m : s[k] \in V
    BY <1>5
  <2>2. s = [k \in 1 .. m |-> s[k]]
    OBVIOUS
  <2> HIDE DEF V, s, m
  <2>3. s \in Seq(V)
    BY <1>1, <2>1, <2>2
  <2> QED
    BY <2>3 DEF V
<1>7. items \in Seq(Z)
  <2> HIDE DEF s
  <2> QED
    BY <1>2, <1>6, Flattened
<1>8. IsSeq(items) /\ \A k \in DOMAIN items : items[k] \in Z
  BY <1>7, SomeSeq
<1> QED
  BY <1>3, <1>8 DEF items

\* What is judged are the items with a valid label, in order.
Judged(t, items, l, labels) ==
    /\ IsSeq(t) /\ 1 \in DOMAIN t
    /\ \A k \in DOMAIN t : t[k].do \in {"judge", "raise"}
    /\ \A k \in DOMAIN t : t[k].do = "judge" =>
          /\ HumanTask(t[k]) /\ Len(l) = Len(t)
          /\ l[k] \in DOMAIN items /\ Valid(labels[l[k]]) /\ t[k] = items[l[k]]

LEMMA HumanTasksFacts ==
    ASSUME NEW cases, IsSeq(cases), NEW n \in Nat, NEW labels
    PROVE  LET items == LabelSample(cases, n)
               l == Labelled(items, labels)
           IN  /\ IsSeq(l)
               /\ Judged(HumanTasks(items, labels), items, l, labels)
<1> DEFINE items == LabelSample(cases, n)
           l == Labelled(items, labels)
           t == HumanTasks(items, labels)
           V == {k \in DOMAIN items : Valid(labels[k])}
           all1 == [k \in DOMAIN items |-> k]
<1>1. IsSeq(items) /\ \A k \in DOMAIN items : HumanTask(items[k])
  BY SampleTasks
<1>2. l = Among(all1, V)
  BY DEF Labelled
<1>3. t = IF l = << >> THEN <<Mark("raise")>> ELSE [i \in DOMAIN l |-> items[l[i]]]
  BY DEF HumanTasks
<1>4. DOMAIN items = 1 .. Len(items) /\ Len(items) \in Nat
  BY <1>1, SeqFacts
<1>5. l \in Seq(DOMAIN items \cap V)
  <2> DEFINE T == DOMAIN items
  <2>1. all1 \in Seq(T)
    BY <1>4
  <2> HIDE DEF T, all1, V, l
  <2> QED
    BY <1>2, <2>1, AmongIn DEF T
<1>6. /\ IsSeq(l) /\ DOMAIN l = 1 .. Len(l) /\ Len(l) \in Nat
      /\ \A k \in DOMAIN l : l[k] \in DOMAIN items /\ Valid(labels[l[k]])
  <2>1. \A k \in DOMAIN l : l[k] \in DOMAIN items \cap V
    BY <1>5
  <2>2. IsSeq(l)
    <3> HIDE DEF l, V
    <3> QED
      BY <1>5, SomeSeq
  <2> HIDE DEF l
  <2> QED
    BY <2>1, <2>2, SeqFacts
<1> HIDE DEF l, t, V, all1, items
<1>7. CASE l = << >>
  <2> DEFINE r == Mark("raise")
  <2>1. r.do = "raise" /\ "raise" # "judge"
    BY DEF Mark
  <2> HIDE DEF r
  <2>2. t \in Seq({r}) /\ 1 \in DOMAIN t /\ \A k \in DOMAIN t : t[k] = r
    BY <1>3, <1>7 DEF r
  <2>3. IsSeq(t)
    BY <2>2, SomeSeq
  <2>4. Judged(t, items, l, labels)
    BY <2>1, <2>2, <2>3 DEF Judged
  <2> QED
    BY <1>6, <2>4 DEF t, items, l
<1>8. CASE l # << >>
  <2>1. t = [k \in 1 .. Len(l) |-> t[k]] /\ \A k \in 1 .. Len(l) : t[k] = items[l[k]]
    BY <1>3, <1>6, <1>8
  <2>2. IsSeq(t) /\ Len(t) = Len(l) /\ DOMAIN t = 1 .. Len(l)
    BY <1>6, <2>1, Listed
  <2>3. ASSUME NEW k \in DOMAIN t
        PROVE  HumanTask(t[k]) /\ l[k] \in DOMAIN items /\ Valid(labels[l[k]]) /\ t[k] = items[l[k]]
    <3>1. k \in DOMAIN l /\ t[k] = items[l[k]]
      BY <1>6, <2>1, <2>2
    <3> QED
      BY <1>1, <1>6, <3>1
  <2>4. \A k \in DOMAIN t : t[k].do = "judge"
    BY <2>3 DEF HumanTask
  <2>6. 1 \in DOMAIN t
    <3>1. Len(l) \in Nat \ {0}
      BY <1>6, <1>8, TailFacts
    <3> QED
      BY <2>2, <3>1
  <2>5. Judged(t, items, l, labels)
    BY <2>2, <2>3, <2>4, <2>6 DEF Judged
  <2> QED
    BY <1>6, <2>5 DEF t, items, l
<1> QED
  BY <1>7, <1>8

\* The marks m are of the first of some tasks, and the rest is still to be done.
Agrees(m, rest, tasks) ==
    /\ IsSeq(m) /\ IsSeq(rest) /\ Len(m) + Len(rest) = Len(tasks)
    /\ \A k \in DOMAIN rest : rest[k] = tasks[Len(m) + k]
    /\ \A k \in DOMAIN m : tasks[k].do = "judge" /\ m[k].use = tasks[k].use /\ m[k].subject = tasks[k].subject

LEMMA AgreesFirst ==
    ASSUME NEW tasks, IsSeq(tasks), NEW m \in Seq({})
    PROVE  Agrees(m, tasks, tasks)
<1>1. IsSeq(m) /\ DOMAIN m = {}
  BY NoElements
<1>2. Len(m) = 0
  OBVIOUS
<1>3. DOMAIN tasks = 1 .. Len(tasks) /\ Len(tasks) \in Nat
  BY SeqFacts
<1> QED
  BY <1>1, <1>2, <1>3 DEF Agrees

LEMMA AgreesNext ==
    ASSUME NEW tasks, IsSeq(tasks), NEW m, NEW rest, Agrees(m, rest, tasks), rest # << >>,
           Head(rest).do = "judge", NEW mark, mark.use = Head(rest).use, mark.subject = Head(rest).subject
    PROVE  Agrees(Append(m, mark), Tail(rest), tasks)
<1> DEFINE n == Len(m)
           r == Len(rest)
           after == Append(m, mark)
           left == Tail(rest)
<1>1. /\ IsSeq(m) /\ IsSeq(rest) /\ n + r = Len(tasks)
      /\ \A k \in DOMAIN rest : rest[k] = tasks[n + k]
      /\ \A k \in DOMAIN m : tasks[k].do = "judge" /\ m[k].use = tasks[k].use /\ m[k].subject = tasks[k].subject
  BY DEF Agrees
<1>2. DOMAIN m = 1 .. n /\ n \in Nat /\ DOMAIN rest = 1 .. r
  BY <1>1, SeqFacts
<1>3. /\ IsSeq(after) /\ Len(after) = n + 1 /\ DOMAIN after = 1 .. n + 1
      /\ \A k \in 1 .. n : after[k] = m[k]
      /\ after[n + 1] = mark
  BY <1>1, AppendFacts
<1>4. /\ IsSeq(left) /\ r \in Nat \ {0} /\ Len(left) = r - 1 /\ DOMAIN left = 1 .. r - 1
      /\ \A k \in 1 .. r - 1 : left[k] = rest[k + 1]
      /\ Head(rest) = rest[1]
  BY <1>1, TailFacts
<1> HIDE DEF n, r, after, left
<1>5. 1 \in DOMAIN rest /\ rest[1] = tasks[n + 1]
  BY <1>1, <1>2, <1>4
<1>6. Len(after) + Len(left) = Len(tasks)
  <2>1. (n + 1) + (r - 1) = n + r
    BY <1>2, <1>4
  <2> QED
    BY <1>1, <1>3, <1>4, <2>1
<1>7. ASSUME NEW k \in DOMAIN left PROVE left[k] = tasks[Len(after) + k]
  <2>1. k + 1 \in DOMAIN rest /\ left[k] = rest[k + 1] /\ n + (k + 1) = (n + 1) + k
    BY <1>2, <1>4
  <2> QED
    BY <1>1, <1>3, <2>1
<1>8. ASSUME NEW k \in DOMAIN after
      PROVE  tasks[k].do = "judge" /\ after[k].use = tasks[k].use /\ after[k].subject = tasks[k].subject
  <2>1. CASE k = n + 1
    BY <1>3, <1>4, <1>5, <2>1
  <2>2. CASE k # n + 1
    <3>1. k \in DOMAIN m /\ after[k] = m[k]
      BY <1>2, <1>3, <2>2
    <3> QED
      BY <1>1, <3>1
  <2> QED
    BY <2>1, <2>2
<1> QED
  BY <1>3, <1>4, <1>6, <1>7, <1>8 DEF Agrees, after, left

HumanPlan(p) == HumanTasks(LabelSample(Cases(p), command[p].n), command[p].labels)

\* The marks of a person's sample are of its items, one after the other.
HumanInv(p) ==
    command[p].tool = "human" /\ pc[p] \in {"audit", "done"} =>
        /\ Agrees(marks[p], plan[p], HumanPlan(p))
        /\ pc[p] = "done" => plan[p] = << >>

LEMMA HumanPlanned ==
    ASSUME NEW p \in Process, command \in Scenario, command[p].tool = "human"
    PROVE  LET items == LabelSample(Cases(p), command[p].n)
               l == Labelled(items, command[p].labels)
           IN  /\ Plan(p) = HumanPlan(p) /\ IsSeq(l)
               /\ Judged(HumanPlan(p), items, l, command[p].labels)
<1>1. IsSeq(Cases(p))
  BY CasesSeq
<1>2. command[p].n \in Nat
  BY ProbeAssumption
<1>3. Plan(p) = HumanPlan(p)
  BY DEF Plan, HumanPlan
<1> DEFINE n == command[p].n
           labels == command[p].labels
           cases == Cases(p)
<1> HIDE DEF n, labels, cases
<1>4. LET items == LabelSample(cases, n)
          l == Labelled(items, labels)
      IN  IsSeq(l) /\ Judged(HumanTasks(items, labels), items, l, labels)
  BY <1>1, <1>2, HumanTasksFacts DEF n, cases
<1> QED
  BY <1>3, <1>4 DEF n, labels, cases, HumanPlan

LEMMA HumanSame ==
    ASSUME command' = command, NEW p, HumanInv(p), plan'[p] = plan[p], marks'[p] = marks[p], pc'[p] = pc[p]
    PROVE  HumanInv(p)'
<1>1. HumanPlan(p)' = HumanPlan(p)
  BY DEF HumanPlan, Cases
<1> DEFINE tasks == HumanPlan(p)
<1> HIDE DEF tasks
<1>2. Agrees(marks[p], plan[p], tasks) => Agrees(marks'[p], plan'[p], tasks)
  OBVIOUS
<1>3. HumanPlan(p)' = tasks
  BY <1>1 DEF tasks
<1>4. ASSUME Agrees(marks'[p], plan'[p], HumanPlan(p)') PROVE Agrees(marks[p], plan[p], HumanPlan(p))'
  BY <1>4
<1> QED
  BY <1>2, <1>3, <1>4 DEF HumanInv, tasks

LEMMA HumanElsewhere ==
    ASSUME NEW p, pc'[p] \notin {"audit", "done"}
    PROVE  HumanInv(p)'
  BY DEF HumanInv

\* Nothing but a judge's call, or the end of the command, is next.
LEMMA HumanHead ==
    ASSUME NEW p \in Process, command \in Scenario, command[p].tool = "human", HumanInv(p),
           pc[p] = "audit", plan[p] # << >>
    PROVE  Next1(p).do \in {"judge", "raise"}
<1> DEFINE t == HumanPlan(p)
           m == marks[p]
           rest == plan[p]
<1>1. Agrees(m, rest, t)
  BY DEF HumanInv
<1>2. IsSeq(t) /\ \A k \in DOMAIN t : t[k].do \in {"judge", "raise"}
  BY HumanPlanned DEF Judged
<1> HIDE DEF t, m, rest
<1>3. /\ IsSeq(m) /\ IsSeq(rest) /\ Len(m) + Len(rest) = Len(t)
      /\ \A k \in DOMAIN rest : rest[k] = t[Len(m) + k]
  BY <1>1 DEF Agrees
<1>4. Len(rest) \in Nat \ {0} /\ Head(rest) = rest[1] /\ rest # << >>
  BY <1>3, TailFacts DEF rest
<1>5. Len(m) \in Nat /\ 1 \in DOMAIN rest /\ DOMAIN t = 1 .. Len(t)
  BY <1>2, <1>3, <1>4, SeqFacts
<1>6. Len(m) + 1 \in 1 .. Len(t)
  <2>1. \A x, y \in Nat : y # 0 => x + 1 \in 1 .. x + y
    OBVIOUS
  <2> QED
    BY <1>3, <1>4, <1>5, <2>1
<1>7. rest[1] = t[Len(m) + 1]
  BY <1>3, <1>5
<1> QED
  BY <1>2, <1>4, <1>5, <1>6, <1>7 DEF Next1, rest

LEMMA HumanNext ==
    ASSUME EarnedInv, Grows, command \in Scenario, NEW p \in Process, Step(p), PlanInv(p), HumanInv(p)
    PROVE  HumanInv(p)'
<1> USE DEF Kept, Goto
<1>1. command' = command
  BY DEF Grows
<1> SUFFICES ASSUME command[p].tool = "human" PROVE HumanInv(p)'
  BY <1>1 DEF HumanInv
<1>2. command[p].tool \notin Runs /\ pc[p] \notin Running
  <2>1. "human" \notin Runs
    BY DEF Runs
  <2> QED
    BY <2>1 DEF PlanInv
<1>3. CASE (EvalStep(p) \/ Crash(p)) /\ UNCHANGED <<auditing, rates, grade>>
  <2>1. plan'[p] = plan[p] /\ marks'[p] = marks[p]
    BY <1>3 DEF auditing
  <2>2. CASE JudgeReplies(p) \/ JudgeFails(p)
    <3>1. pc'[p] = pc[p]
      BY <2>2 DEF JudgeReplies, JudgeFails, running
    <3> QED
      BY <1>1, <2>1, <3>1, HumanSame
  <2>3. CASE Crash(p)
    <3>1. pc'[p] = "dead"
      BY <2>3 DEF Crash, EarnedInv
    <3> QED
      BY <3>1, HumanElsewhere
  <2>4. CASE \/ Start(p) \/ Load(p) \/ Generate(p) \/ GenerateRaises(p) \/ AskJudge(p) \/ SkipJudge(p)
             \/ TakeScore(p) \/ JudgeRaised(p) \/ EndCase(p) \/ FinishRun(p) \/ FinishUnrecorded(p) \/ RecordFails(p)
    BY <1>2, <2>4 DEF Start, Load, Generate, GenerateRaises, AskJudge, SkipJudge, TakeScore, JudgeRaised,
                      EndCase, FinishRun, FinishUnrecorded, RecordFails, Running
  <2> QED
    BY <1>3, <2>2, <2>3, <2>4 DEF EvalStep
<1>4. ASSUME pc[p] = "audit", plan[p] # << >>, Next1(p).do \notin {"judge", "raise"} PROVE FALSE
  BY <1>4, HumanHead
<1>5. CASE AuditTask(p) /\ UNCHANGED <<rates, grade>>
  <2>1. CASE CacheOff(p) \/ Restore(p) \/ SetModel(p)
    BY <1>4, <2>1 DEF CacheOff, Restore, SetModel, Doing
  <2>2. CASE AskForMark(p)
    <3>1. pc'[p] = pc[p] /\ plan'[p] = plan[p] /\ marks'[p] = marks[p]
      BY <2>2 DEF AskForMark, running, auditing
    <3> QED
      BY <1>1, <3>1, HumanSame
  <2>3. CASE AuditFails(p)
    <3>1. pc'[p] = "failed"
      BY <2>3 DEF AuditFails, EndAudit, EarnedInv
    <3> QED
      BY <3>1, HumanElsewhere
  <2>4. CASE TakeMark(p)
    <3> DEFINE mark == [use |-> Next1(p).use, subject |-> Next1(p).subject, model |-> model[p],
                        score |-> call[p].score, paid |-> call[p].paid]
               tasks == HumanPlan(p)
               m == marks[p]
               rest == plan[p]
    <3>1. /\ pc[p] = "audit" /\ pc'[p] = "audit" /\ rest # << >> /\ Head(rest).do = "judge"
          /\ marks'[p] = Append(m, mark) /\ plan'[p] = Tail(rest)
      BY <2>4 DEF TakeMark, Doing, Done1, Next1, EarnedInv, running, Returned
    <3>2. mark.use = Head(rest).use /\ mark.subject = Head(rest).subject
      BY DEF Next1
    <3>3. Agrees(m, rest, tasks) /\ IsSeq(tasks)
      BY <3>1, HumanPlanned DEF HumanInv, Judged
    <3>4. HumanPlan(p)' = tasks
      BY <1>1 DEF HumanPlan, Cases
    <3> HIDE DEF mark, tasks, m, rest
    <3>5. Agrees(Append(m, mark), Tail(rest), tasks)
      BY <3>1, <3>2, <3>3, AgreesNext
    <3>6. Agrees(marks'[p], plan'[p], HumanPlan(p)')
      BY <3>1, <3>4, <3>5
    <3>7. Agrees(marks[p], plan[p], HumanPlan(p))'
      BY <3>6
    <3>8. "audit" # "done"
      OBVIOUS
    <3> QED
      BY <3>1, <3>7, <3>8 DEF HumanInv
  <2> QED
    BY <1>5, <2>1, <2>2, <2>3, <2>4 DEF AuditTask
<1>6. CASE ProbeStep(p)
  <2>1. CASE StartProbe(p)
    <3>1. pc'[p] = "plan"
      BY <2>1 DEF StartProbe, EarnedInv
    <3> QED
      BY <3>1, HumanElsewhere
  <2>2. CASE MakePlan(p)
    <3> DEFINE tasks == HumanPlan(p)
    <3>1. /\ pc[p] = "plan" /\ pc'[p] = "audit" /\ plan'[p] = Plan(p) /\ marks'[p] = marks[p]
      BY <2>2 DEF MakePlan, EarnedInv
    <3>2. Plan(p) = tasks /\ IsSeq(tasks)
      BY HumanPlanned DEF Judged
    <3>3. marks[p] \in Seq({})
      <4>1. marks[p] = << >>
        BY <3>1 DEF PlanInv, Before
      <4>2. << >> \in Seq({})
        OBVIOUS
      <4> QED
        BY <4>1, <4>2
    <3>4. HumanPlan(p)' = tasks
      BY <1>1 DEF HumanPlan, Cases
    <3> HIDE DEF tasks
    <3>5. Agrees(marks[p], tasks, tasks)
      BY <3>2, <3>3, AgreesFirst
    <3>6. Agrees(marks'[p], plan'[p], HumanPlan(p)')
      BY <3>1, <3>2, <3>4, <3>5
    <3>7. Agrees(marks[p], plan[p], HumanPlan(p))'
      BY <3>6
    <3>8. "audit" # "done"
      OBVIOUS
    <3> QED
      BY <3>1, <3>7, <3>8 DEF HumanInv
  <2>3. CASE GenerateCited(p) \/ GenerateNoisy(p) \/ Abstain(p) \/ Poison(p) \/ PoisonFacts(p)
    BY <1>4, <2>3 DEF GenerateCited, GenerateNoisy, Abstain, Poison, PoisonFacts, Doing
  <2>4. CASE ProbeRaises(p)
    <3>1. pc'[p] = "failed"
      BY <2>4 DEF ProbeRaises, EndAudit, EarnedInv
    <3> QED
      BY <3>1, HumanElsewhere
  <2>5. CASE Report(p)
    <3> DEFINE tasks == HumanPlan(p)
    <3>1. /\ pc[p] = "audit" /\ pc'[p] = "done" /\ plan[p] = << >>
          /\ plan'[p] = plan[p] /\ marks'[p] = marks[p]
      BY <2>5 DEF Report, auditing, EarnedInv
    <3>2. Agrees(marks[p], plan[p], tasks)
      BY <3>1 DEF HumanInv
    <3>3. HumanPlan(p)' = tasks
      BY <1>1 DEF HumanPlan, Cases
    <3> HIDE DEF tasks
    <3>4. Agrees(marks'[p], plan'[p], HumanPlan(p)') /\ plan'[p] = << >>
      BY <3>1, <3>2, <3>3
    <3>5. Agrees(marks[p], plan[p], HumanPlan(p))'
      BY <3>4
    <3> QED
      BY <3>1, <3>4, <3>5 DEF HumanInv
  <2> QED
    BY <1>6, <2>1, <2>2, <2>3, <2>4, <2>5 DEF ProbeStep
<1> QED
  BY <1>3, <1>5, <1>6 DEF Step

LEMMA HumanPaired ==
    ASSUME NEW p \in Process, command \in Scenario, command[p].tool = "human", pc[p] = "done", HumanInv(p)
    PROVE  Paired(p) /\ OnTable(HumanKappa(p), Verdicts(p, "human"), HumanVerdicts(p))
<1> DEFINE items == LabelSample(Cases(p), command[p].n)
           labels == command[p].labels
           l == Labelled(items, labels)
           tasks == HumanPlan(p)
           m == marks[p]
           N == Len(m)
           said == HumanVerdicts(p)
           s == ScoresFor(p, "human", "correctness", "plain")
           judged == Verdicts(p, "human")
<1>1. Agrees(m, plan[p], tasks) /\ plan[p] = << >>
  BY DEF HumanInv
<1>2. IsSeq(l) /\ Judged(tasks, items, l, labels)
  BY HumanPlanned
<1>3. said = [k \in DOMAIN l |-> labels[l[k]] = "correct"]
  BY DEF HumanVerdicts
<1>4. judged = PassedOf(s)
  BY VerdictsPassed
<1> HIDE DEF items, labels, l, tasks, said, judged, s
<1>5. /\ IsSeq(m) /\ DOMAIN m = 1 .. N /\ N \in Nat /\ Len(tasks) = N
      /\ \A k \in DOMAIN m : tasks[k].do = "judge" /\ m[k].use = tasks[k].use /\ m[k].subject = tasks[k].subject
  <2>1. IsSeq(m) /\ N + Len(plan[p]) = Len(tasks)
    BY <1>1 DEF Agrees
  <2>2. Len(plan[p]) = 0
    BY <1>1
  <2>3. DOMAIN m = 1 .. N /\ N \in Nat
    BY <2>1, SeqFacts
  <2>4. Len(tasks) = N
    <3> HIDE DEF N
    <3> QED
      BY <2>1, <2>2, <2>3 DEF N
  <2> QED
    BY <1>1, <2>1, <2>3, <2>4 DEF Agrees
<1>6. DOMAIN tasks = 1 .. N /\ 1 \in 1 .. N
  BY <1>2, <1>5, SeqFacts DEF Judged
<1>7. ASSUME NEW k \in 1 .. N
      PROVE  /\ m[k].use = "human" /\ m[k].subject.metric = "correctness" /\ m[k].subject.answer[3] = "plain"
             /\ Len(l) = N /\ l[k] \in DOMAIN items /\ Valid(labels[l[k]]) /\ m[k].subject = items[l[k]].subject
  <2>1. HumanTask(tasks[k]) /\ Len(l) = Len(tasks) /\ l[k] \in DOMAIN items /\ Valid(labels[l[k]])
        /\ tasks[k] = items[l[k]]
    BY <1>2, <1>5, <1>6 DEF Judged
  <2>2. m[k].use = tasks[k].use /\ m[k].subject = tasks[k].subject
    BY <1>5
  <2> QED
    BY <1>5, <2>1, <2>2 DEF HumanTask
<1>8. Len(l) = N
  BY <1>6, <1>7
<1>9. IsSeq(said) /\ Len(said) = N /\ \A k \in 1 .. N : said[k] = (labels[l[k]] = "correct") /\ said[k] \in BOOLEAN
  <2>1. DOMAIN l = 1 .. N
    BY <1>2, <1>8, SeqFacts
  <2>2. said = [k \in 1 .. N |-> said[k]] /\ \A k \in 1 .. N : said[k] = (labels[l[k]] = "correct") /\ said[k] \in BOOLEAN
    BY <1>3, <2>1
  <2> HIDE DEF N
  <2> QED
    BY <1>5, <2>2, Listed
<1>10. IsSeq(s) /\ Len(s) = N /\ \A k \in 1 .. N : s[k] = m[k].score
  <2> DEFINE t == Taken(p, "human", "correctness", "plain")
             S == {x \in ToSet(marks[p]) : x.use = "human" /\ x.subject.metric = "correctness" /\ x.subject.answer[3] = "plain"}
             T == Values(m)
  <2>1. t = Among(m, S)
    BY DEF Taken
  <2>2. m \in Seq(T)
    BY <1>5 DEF IsSeq
  <2>3. \A k \in DOMAIN m : m[k] \in S
    BY <1>5, <1>7 DEF ToSet
  <2>4. IsSeq(t) /\ IsSeq(s) /\ Len(s) = Len(t) /\ \A k \in DOMAIN t : s[k] = t[k].score
    BY <1>5, ScoresListed DEF s
  <2> HIDE DEF t, S, T, m, N
  <2>5. Len(t) = Len(m) /\ \A k \in DOMAIN m : t[k] = m[k]
    BY <2>1, <2>2, <2>3, AmongAll
  <2>6. DOMAIN t = 1 .. N
    BY <2>4, <2>5, SeqFacts DEF N
  <2> QED
    BY <1>5, <2>4, <2>5, <2>6 DEF N
<1>11. /\ IsSeq(judged) /\ Len(judged) = N /\ DOMAIN judged = 1 .. N
       /\ \A k \in 1 .. N : judged[k] = (m[k].score >= Threshold) /\ judged[k] \in BOOLEAN
  <2>1. /\ IsSeq(judged) /\ Len(judged) = Len(s) /\ DOMAIN judged = DOMAIN s
        /\ \A k \in DOMAIN s : judged[k] = (s[k] >= Threshold) /\ judged[k] \in BOOLEAN
    BY <1>4, <1>10, PassedListed
  <2>2. DOMAIN s = 1 .. N
    BY <1>10, SeqFacts
  <2> HIDE DEF N
  <2> QED
    BY <1>10, <2>1, <2>2
<1>12. OnTable(CohensKappa(judged, said), judged, said)
  <2> HIDE DEF N
  <2> QED
    BY <1>9, <1>11, KappaOnTable
<1>13. OnTable(HumanKappa(p), judged, said)
  BY <1>12 DEF HumanKappa, judged, said
<1>14. ASSUME NEW k \in DOMAIN marks[p]
       PROVE  \E i \in DOMAIN items :
                 /\ marks[p][k].subject = items[i].subject
                 /\ judged[k] = (marks[p][k].score >= Threshold)
                 /\ Valid(labels[i]) /\ said[k] = (labels[i] = "correct")
  <2>1. k \in 1 .. N
    BY <1>5
  <2>2. l[k] \in DOMAIN items
    BY <1>7, <2>1
  <2> QED
    BY <1>7, <1>9, <1>11, <2>1, <2>2
<1>15. Len(judged) = Len(marks[p]) /\ Len(said) = Len(marks[p])
  BY <1>9, <1>11
<1>16. Paired(p)
  BY <1>14, <1>15 DEF Paired, items, labels, judged, said
<1> QED
  BY <1>13, <1>16 DEF judged, said

KappaInv == PaysInv /\ \A p \in Process : HumanInv(p)

LEMMA KappaInit == Init => KappaInv
<1> SUFFICES ASSUME Init PROVE KappaInv
  OBVIOUS
<1>1. PaysInv
  BY PaysInit
<1>2. ASSUME NEW p \in Process PROVE HumanInv(p)
  <2>1. pc[p] = "idle"
    BY DEF Init, AuditInit, EvalInit
  <2>2. "idle" # "audit" /\ "idle" # "done"
    OBVIOUS
  <2> QED
    BY <2>1, <2>2 DEF HumanInv
<1> QED
  BY <1>1, <1>2 DEF KappaInv

LEMMA KappaNext == KappaInv /\ [Next]_all => KappaInv'
<1> SUFFICES ASSUME KappaInv, [Next]_all PROVE KappaInv'
  OBVIOUS
<1>1. PaysInv'
  BY PaysNext DEF KappaInv
<1>2. ASSUME NEW p \in Process, Step(p), NEW q \in Process PROVE HumanInv(q)'
  <2>1. Grows /\ (q # p => Same(q))
    BY <1>2, Others DEF KappaInv, PaysInv, EarnedInv
  <2>2. CASE q = p
    BY <1>2, <2>1, <2>2, HumanNext DEF KappaInv, PaysInv, OwnInv
  <2>3. CASE q # p
    BY <2>1, <2>3, HumanSame DEF KappaInv, Grows, Same
  <2> QED
    BY <2>2, <2>3
<1>3. ASSUME UNCHANGED all, NEW q \in Process PROVE HumanInv(q)'
  <2>1. command' = command /\ plan'[q] = plan[q] /\ marks'[q] = marks[q] /\ pc'[q] = pc[q]
    BY <1>3 DEF all, vars, running, auditing
  <2> QED
    BY <2>1, HumanSame DEF KappaInv
<1>4. \A q \in Process : HumanInv(q)'
  <2>1. (\E p \in Process : Step(p)) \/ UNCHANGED all
    BY DEF Next, Finished
  <2> QED
    BY <1>2, <1>3, <2>1
<1> QED
  BY <1>1, <1>4 DEF KappaInv

\* Whatever the judge's scores and the person's labels, kappa is the closed form on
\* their table, also when chance agreement is total, so that a judge whose verdict
\* does not depend on the answer gets none; and each verdict is compared with what
\* the person said of that very item (judge_audit.py cohens_kappa, human_label.py
\* score_human_kappa).
THEOREM KappaTheorem == Spec => []KappaFair
<1>1. KappaInv => KappaFair
  <2> SUFFICES ASSUME KappaInv, NEW p \in Process, pc[p] = "done"
               PROVE  LET right == Verdicts(p, "right")
                          wrong == Verdicts(p, "wrong")
                      IN  /\ right # << >> =>
                                OnTable(Kappa(p).kappa, right \o wrong, [k \in DOMAIN (right \o wrong) |-> k <= Len(right)])
                          /\ command[p].tool = "human" =>
                                /\ Paired(p)
                                /\ OnTable(HumanKappa(p), Verdicts(p, "human"), HumanVerdicts(p))
    BY DEF KappaFair
  <2>1. IsSeq(marks[p])
    BY DEF KappaInv, PaysInv, EarnedInv, MarksInv
  <2>2. command[p].tool = "human" => Paired(p) /\ OnTable(HumanKappa(p), Verdicts(p, "human"), HumanVerdicts(p))
    BY HumanPaired DEF KappaInv, PaysInv
  <2> QED
    BY <2>1, <2>2, KappaKnown
<1> QED
  BY <1>1, KappaInit, KappaNext, PTL DEF Spec
=============================================================================

----------------------------- MODULE JudgeStats -----------------------------
(***************************************************************************)
(* The statistics of the judge audit (evaluation/judge_audit.py) and of    *)
(* the reliability audit (evaluation/audit.py), over sequences of scores.  *)
(* Scores are integers of a grid, means are totals, and a ratio is a pair  *)
(* of a numerator and a denominator.                                       *)
(***************************************************************************)
EXTENDS Integers, Sequences, FiniteSets, SequencesExt, FiniteSetsExt

Distance(a, b) == IF a > b THEN a - b ELSE b - a

\* Cases whose verdict at the gate differs between two judgements.
Flips(base, other, threshold) ==
    Cardinality({k \in DOMAIN base : (base[k] >= threshold) # (other[k] >= threshold)})

\* score_shift_stats, and scale_stats, which computes the same of two scales.
ShiftStats(base, other, threshold) ==
    [n      |-> Len(base),
     moved  |-> SumFunction([k \in DOMAIN base |-> Distance(base[k], other[k])]),
     signed |-> SumFunction(other) - SumFunction(base),
     max    |-> Max({Distance(base[k], other[k]) : k \in DOMAIN base}),
     flips  |-> Flips(base, other, threshold)]

\* Fault: agreement is not corrected for chance.
CohensKappaRaw(a, b) ==
    <<Cardinality({k \in DOMAIN a : a[k] = b[k]}), Len(a)>>

\* cohens_kappa of two sequences of BOOLEANs; both ratios over n * n.
CohensKappa(a, b) ==
    LET n == Len(a)
        Yes(s) == Cardinality({k \in DOMAIN s : s[k]})
        observed == n * Cardinality({k \in DOMAIN a : a[k] = b[k]})
        expected == Yes(a) * Yes(b) + (n - Yes(a)) * (n - Yes(b))
    IN  IF expected = n * n THEN <<IF observed = n * n THEN 1 ELSE 0, 1>>
        ELSE <<observed - expected, n * n - expected>>

\* kappa_stats: the judge's verdicts on answers known to be right and wrong.
KappaStats(right, wrong, threshold) ==
    LET judge == [k \in 1 .. Len(right) + Len(wrong) |-> (right \o wrong)[k] >= threshold]
        truth == [k \in 1 .. Len(right) + Len(wrong) |-> k <= Len(right)]
    IN  [kappa        |-> CohensKappa(judge, truth),
         agreed       |-> Cardinality({k \in DOMAIN judge : judge[k] = truth[k]}),
         n            |-> Len(judge),
         falseAccepts |-> Cardinality({k \in DOMAIN wrong : wrong[k] >= threshold}),
         falseRejects |-> Cardinality({k \in DOMAIN right : right[k] < threshold})]

\* The gap between raw agreement and kappa is at most a number of hundredths.
GapWithin(stats, percent) ==
    LET num == stats.agreed * stats.kappa[2] - stats.kappa[1] * stats.n
        den == stats.n * stats.kappa[2]
    IN  100 * num <= percent * den

\* _verdict of a ratio, as points: STRONG 2, WATCH 1, AT_RISK 0.
Verdict(ratio, strong, watch) ==
    IF 100 * ratio[1] >= strong * ratio[2] THEN 2
    ELSE IF 100 * ratio[1] >= watch * ratio[2] THEN 1 ELSE 0

\* Fault: the best grade starts at four fifths.
GradeLenient(points) ==
    LET earned == 100 * SumFunction(points)
        whole == 2 * Len(points)
    IN  IF points = << >> THEN "D" ELSE IF earned >= 80 * whole THEN "A" ELSE "B"

\* score_pct and _grade.
Grade(points) ==
    LET earned == 100 * SumFunction(points)
        whole == 2 * Len(points)
    IN  IF points = << >> THEN "D"
        ELSE IF earned >= 90 * whole THEN "A"
        ELSE IF earned >= 75 * whole THEN "B"
        ELSE IF earned >= 50 * whole THEN "C" ELSE "D"
=============================================================================

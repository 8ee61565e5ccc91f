------------------------------ MODULE SideProbes ------------------------------
(***************************************************************************)
(* The smaller evaluations (evaluation/citation_eval.py, abstention_eval,  *)
(* security_eval, noise_eval, reference_free_eval and human_label), each a *)
(* command of its own, and the reliability audit (evaluation/audit.py),    *)
(* which grades some of them together with a quality run and the audit of  *)
(* the judge.                                                              *)
(*                                                                         *)
(* Like an audit, each is a list of judge calls.  Those that first have an *)
(* answer generated hold a task whose outcome decides what is judged; the  *)
(* probes that only look at answers are one task each, since nothing they  *)
(* do between two answers touches what processes share.                    *)
(***************************************************************************)
EXTENDS JudgeAudit

CONSTANTS
    CitedAnswers,      \* what may come of each case: passages, and sentences with their markers
    SupportAt,         \* SUPPORT_THRESHOLD
    Questions,         \* the number of OUT_OF_CORPUS_QUESTIONS
    Refused,           \* how many of them may be refused
    Injected,          \* answers that may be compromised, of those to each of INJECTIONS
    Counterfactual,    \* and of those to each of COUNTERFACTUALS
    NoiseLevels,       \* DEFAULT_NOISE_LEVELS
    NoisyAnswers       \* answers from a noisy context

\* The commands that do not begin with run_eval, or run nothing at all.
ASSUME ProbeAssumption ==
    /\ NoiseLevels \in Seq(Nat)
    /\ \A s \in Scenario : \A p \in Process :
          /\ s[p].tool \in Runs \cup {"audit", "matrix", "citation", "security", "abstention", "noise",
                                      "reference_free", "human", "none"}
          /\ s[p].tool = "human" => s[p].n \in Nat
    /\ \A c \in DOMAIN Relevant : \A answer \in CitedAnswers[c] :
          /\ answer.passages \in Seq(STRING)
          /\ answer.sentences \in Seq([text : STRING, markers : SUBSET Nat])

VARIABLES
    rates,       \* what the probes without a judge came to, as ratios
    grade        \* points and grade of a reliability audit

all == <<vars, auditing, rates, grade>>

Init ==
    /\ AuditInit
    /\ rates = [p \in Process |-> [probe \in {} |-> << >>]]
    /\ grade = [p \in Process |-> [points |-> << >>, letter |-> "none"]]

-----------------------------------------------------------------------------
\* The probes, as tasks

Each(do, use, cases) == [k \in DOMAIN cases |-> [do |-> do, use |-> use, subject |-> cases[k]]]

\* A faithfulness call over a context of reference answers.
Grounded(use, case, texts, answer) ==
    [do |-> "judge", use |-> use,
     subject |-> [metric |-> "faithfulness", case |-> case, files |-> texts, answer |-> answer]]

\* run_reference_free_probe: each reference over its own context, and the next one's.
ReferenceFree(cases) ==
    IF Len(cases) < 2 THEN <<Mark("raise")>>
    ELSE FlattenSeq([k \in DOMAIN cases |->
             LET context == {Reference[cases[k]]}
             IN  <<Grounded("grounded", cases[k], context, Append(Whole(cases[k]), "plain")),
                   Grounded("ungrounded", cases[k], context, Append(CrossPaired(cases, k), "plain"))>>])

\* build_noisy_context: the reference and n of the other cases', over and over.
NoisyContext(cases, k, n) ==
    LET others == RemoveAt(cases, k)
    IN  {Reference[cases[k]]} \cup {Reference[others[i]] : i \in 1 .. Min({n, Len(others)})}

Noise(cases) ==
    FlattenSeq([l \in DOMAIN NoiseLevels |->
        [k \in DOMAIN cases |->
            [do |-> "generate", use |-> "noise",
             subject |-> [case |-> cases[k], texts |-> NoisyContext(cases, k, NoiseLevels[l])]]]])

\* build_label_sample: for each of the first n cases its reference, then the next one's.
LabelSample(cases, n) ==
    FlattenSeq([k \in 1 .. Min({n, Len(cases)}) |->
        <<JudgeTask("human", "correctness", cases[k], Whole(cases[k]), "plain"),
          JudgeTask("human", "correctness", cases[k], CrossPaired(cases, k), "plain")>>])

\* The items that have a valid label by now, of those a person was given.
Valid(label) == label \in {"correct", "incorrect"}

Labelled(items, labels) ==
    Among([k \in DOMAIN items |-> k], {k \in DOMAIN items : Valid(labels[k])})

\* score_human_kappa: each of them is judged.
HumanTasks(items, labels) ==
    LET labelled == Labelled(items, labels)
    IN  IF labelled = << >> THEN <<Mark("raise")>> ELSE [i \in DOMAIN labelled |-> items[labelled[i]]]

\* What each command runs; reliability and judge audit after the quality run.
Plan(p) ==
    LET c == command[p]
        cases == Cases(p)
    IN  CASE c.tool = "audit" -> RunAudit(c.probes, c.retest, c.scales, c.kappa, cases)
          [] c.tool = "matrix" -> Matrix(c.models, cases)
          [] c.tool = "citation" -> Each("generate", "citation", cases)
          [] c.tool = "security" -> <<Mark("poison"), Mark("counterfactual")>>
          [] c.tool = "abstention" -> <<Mark("abstain")>>
          [] c.tool = "noise" -> Noise(cases)
          [] c.tool = "reference_free" -> ReferenceFree(cases)
          [] c.tool = "human" -> HumanTasks(LabelSample(cases, c.n), c.labels)
          [] c.tool = "reliability" ->
                Each("generate", "citation", cases) \o <<Mark("abstain"), Mark("poison"), Mark("counterfactual")>>
                \o IF c.judge THEN RunAudit(AllProbes, 0, TRUE, TRUE, cases) ELSE << >>

-----------------------------------------------------------------------------
\* Actions

\* A command starts; those of EvalRun have an action of their own.
StartProbe(p) ==
    /\ pc[p] = "idle" /\ command[p].tool \notin Runs \cup {"none"}
    /\ enabled' = [enabled EXCEPT ![p] = command[p].cached]
    /\ model' = [model EXCEPT ![p] = command[p].model]
    /\ stored' = [stored EXCEPT ![p] = DOMAIN rows]
    /\ Goto(p, "plan")
    /\ UNCHANGED <<rows, call, repaid, given, command, config, results, outcome, scores, table, file,
                   faults, auditing, rates, grade>>

MakePlan(p) ==
    /\ pc[p] = "plan"
    /\ plan' = [plan EXCEPT ![p] = Plan(p)]
    /\ Goto(p, "audit")
    /\ UNCHANGED <<judging, command, config, results, outcome, scores, table, file, faults, saved, marks,
                   rates, grade>>

\* Tasks that an answer gives rise to come before what is left of the plan.
Expand(p, tasks) ==
    /\ plan' = [plan EXCEPT ![p] = tasks \o Tail(@)]
    /\ UNCHANGED <<judging, running, file, faults, saved, marks, rates, grade>>

\* run_citation_eval: a call for each marker of each sentence that names a
\* passage there is.
CitationTasks(case, answer) ==
    FlattenSeq([s \in DOMAIN answer.sentences |->
        LET sentence == answer.sentences[s]
            cited == Among([m \in DOMAIN answer.passages |-> m], sentence.markers)
        IN  [i \in DOMAIN cited |->
                Grounded("citation", case, {answer.passages[cited[i]]}, <<sentence.text, "generated", "plain">>)]])

GenerateCited(p) ==
    /\ Doing(p, "generate") /\ Next1(p).use = "citation"
    /\ \E answer \in CitedAnswers[Next1(p).subject] : Expand(p, CitationTasks(Next1(p).subject, answer))

\* run_noise_probe judges each answer twice.
GenerateNoisy(p) ==
    /\ Doing(p, "generate") /\ Next1(p).use = "noise"
    /\ \E answer \in NoisyAnswers :
          LET case == Next1(p).subject.case
              text == <<answer, "generated">>
          IN  Expand(p, <<Grounded("noise", case, Next1(p).subject.texts, Append(text, "plain")),
                          JudgeTask("noise", "correctness", case, text, "plain")>>)

\* run_abstention_probe and run_security_eval only count.
Rated(p, ratios) ==
    /\ rates' = [rates EXCEPT ![p] = ratios @@ @]
    /\ Done1(p)
    /\ UNCHANGED <<judging, running, file, faults, saved, marks, grade>>

Abstain(p) ==
    /\ Doing(p, "abstain")
    /\ \E n \in Refused : Rated(p, "abstention" :> <<n, Questions>>)

\* The answers to the worst template that were not compromised.
Resistance(p, compromised) ==
    LET n == Len(Cases(p)) IN <<n - Max(ToSet(compromised)), n>>

Poison(p) ==
    /\ Doing(p, "poison")
    /\ \E i \in Injected : Rated(p, "injection" :> Resistance(p, i))

PoisonFacts(p) ==
    /\ Doing(p, "counterfactual")
    /\ \E c \in Counterfactual : Rated(p, "counterfactual" :> Resistance(p, c))

\* Retrieval or generation raises.
ProbeRaises(p) ==
    /\ \E do \in {"generate", "abstain", "poison", "counterfactual"} : Doing(p, do)
    /\ faults < MaxFaults /\ faults' = faults + 1
    /\ EndAudit(p)
    /\ UNCHANGED <<rows, stored, repaid, given, command, config, results, outcome, scores, table, file,
                   rates, grade>>

-----------------------------------------------------------------------------
\* The report

MeanVerdict(p, metric, strong, watch) ==
    Verdict(<<Total(results[p], metric), Top * Len(results[p])>>, strong, watch)

\* CitationEvalResult.accuracy: 0.0 of no citation at all.
Accuracy(p) ==
    LET support == ScoresFor(p, "citation", "faithfulness", "plain")
        Enough(score) == score >= SupportAt
    IN  IF support = << >> THEN <<0, 1>> ELSE <<Len(SelectSeq(support, Enough)), Len(support)>>

KappaVerdict(p) == IF GapWithin(Kappa(p), 5) THEN 2 ELSE IF GapWithin(Kappa(p), 12) THEN 1 ELSE 0

FlipVerdict(p) == Verdict(<<Scales(p).n - Scales(p).flips, Scales(p).n>>, 95, 85)

\* The dimensions, in order.
Points(p) ==
    <<MeanVerdict(p, "faithfulness", 90, 80), MeanVerdict(p, "correctness", 85, 75),
      Verdict(rates[p]["abstention"], 95, 80), Verdict(Accuracy(p), 85, 70),
      Verdict(rates[p]["injection"], 90, 70), Verdict(rates[p]["counterfactual"], 90, 70)>>
    \o IF command[p].judge THEN <<KappaVerdict(p), FlipVerdict(p)>> ELSE << >>

\* run_reliability_audit puts the dimensions together; other commands are done.
Report(p) ==
    /\ pc[p] = "audit" /\ plan[p] = << >>
    /\ Goto(p, "done")
    /\ grade' = IF command[p].tool # "reliability" THEN grade
                ELSE [grade EXCEPT ![p] = [points |-> Points(p), letter |-> Grade(Points(p))]]
    /\ UNCHANGED <<judging, command, config, results, outcome, scores, table, file, faults, auditing, rates>>

Verdicts(p, use) ==
    LET judged == ScoresFor(p, use, "correctness", "plain")
    IN  [k \in DOMAIN judged |-> judged[k] >= Threshold]

\* score_human_kappa: the judge's verdicts and the person's.
HumanVerdicts(p) ==
    LET labels == command[p].labels
        labelled == Labelled(LabelSample(Cases(p), command[p].n), labels)
    IN  [k \in DOMAIN labelled |-> labels[labelled[k]] = "correct"]

HumanKappa(p) == CohensKappa(Verdicts(p, "human"), HumanVerdicts(p))

ProbeStep(p) ==
    \/ StartProbe(p) \/ MakePlan(p)
    \/ GenerateCited(p) \/ GenerateNoisy(p) \/ Abstain(p) \/ Poison(p) \/ PoisonFacts(p)
    \/ ProbeRaises(p)
    \/ Report(p)

\* A process goes on until it is done, has failed or has died.
Step(p) ==
    \/ (EvalStep(p) \/ Crash(p)) /\ UNCHANGED <<auditing, rates, grade>>
    \/ AuditTask(p) /\ UNCHANGED <<rates, grade>>
    \/ ProbeStep(p)

\* The commands have ended; anything else that cannot go on is a deadlock.
Ended(p) == pc[p] \in {"done", "failed", "dead"} \/ command[p].tool = "none"
Finished == (\A p \in Process : Ended(p)) /\ UNCHANGED all

Next == (\E p \in Process : Step(p)) \/ Finished

Spec == Init /\ [][Next]_all

-----------------------------------------------------------------------------
\* Properties

\* What a re-test or a matrix reports was judged anew, call by call, so that the
\* spread of the repeats is the judge's and the models' costs can be compared;
\* the cache, whatever it holds and whoever fills it, answers none of it.
RetestsFresh ==
    \A p \in Process : \A k \in DOMAIN marks[p] :
        (marks[p][k].use = "retest" \/ command[p].tool = "matrix") => marks[p][k].paid

\* Whatever other processes judge, cache, fail at or append meanwhile: every entry
\* of the history that can be loaded is the record of one whole run, its selected
\* cases in the order of the golden files, and every score, there or in an audit,
\* is one that the model it is put down to gave to that very text.
ScoresEarned ==
    /\ HistoryEarned
    /\ \A p \in Process : \A k \in DOMAIN marks[p] :
           <<marks[p][k].model, marks[p][k].subject, marks[p][k].score>> \in given

\* A command with the cache never pays for a judgement that was stored when it
\* began, nor for one of its own, except in a re-test: reruns are "effectively
\* free" (cli.py:158), and the check after a re-test finds the cache on again.
PaidOnce ==
    \A p \in Process :
        /\ ~repaid[p]
        /\ command[p].tool = "audit" /\ command[p].cached =>
              \A j, k \in DOMAIN marks[p] :
                  (/\ marks[p][j].subject = marks[p][k].subject /\ marks[p][j].paid /\ marks[p][k].paid
                   /\ "retest" \notin {marks[p][j].use, marks[p][k].use})
                  => j = k

\* The closed form of kappa, on the table of what two raters said.
OnTable(kappa, judge, truth) ==
    LET N(x, y) == Cardinality({k \in DOMAIN judge : judge[k] = x /\ truth[k] = y})
        a == N(TRUE, TRUE)
        b == N(TRUE, FALSE)
        c == N(FALSE, TRUE)
        d == N(FALSE, FALSE)
    IN  kappa[1] * ((a + b) * (b + d) + (a + c) * (c + d)) = 2 * (a * d - b * c) * kappa[2]

\* Each verdict of the judge is of an item, and has beside it what the person said
\* of that item.
Paired(p) ==
    LET items == LabelSample(Cases(p), command[p].n)
        labels == command[p].labels
    IN  /\ Len(Verdicts(p, "human")) = Len(marks[p]) /\ Len(HumanVerdicts(p)) = Len(marks[p])
        /\ \A k \in DOMAIN marks[p] : \E i \in DOMAIN items :
              /\ marks[p][k].subject = items[i].subject
              /\ Verdicts(p, "human")[k] = (marks[p][k].score >= Threshold)
              /\ Valid(labels[i]) /\ HumanVerdicts(p)[k] = (labels[i] = "correct")

\* Kappa, against known answers and against a person's labels: a judge whose verdict
\* does not depend on the answer gets none, whatever share of its verdicts agrees,
\* and a label that is blank or invalid moves no other to the wrong verdict.
KappaFair ==
    \A p \in Process : pc[p] = "done" =>
        LET right == Verdicts(p, "right")
            wrong == Verdicts(p, "wrong")
        IN  /\ right # << >> =>
                  OnTable(Kappa(p).kappa, right \o wrong, [k \in DOMAIN (right \o wrong) |-> k <= Len(right)])
            /\ command[p].tool = "human" =>
                  /\ Paired(p)
                  /\ OnTable(HumanKappa(p), Verdicts(p, "human"), HumanVerdicts(p))

\* An audit graded "A - Trustworthy" has no dimension at risk.
GradeAMeansIt ==
    \A p \in Process : grade[p].letter = "A" => \A k \in DOMAIN grade[p].points : grade[p].points[k] > 0

\* A cross-paired answer is wrong: it is not the reference of the case it answers
\* ("guaranteed wrong", judge_audit.py:201; "exact by construction", :316).
CrossPairedWrong ==
    \A p \in Process : \A k \in DOMAIN marks[p] :
        marks[p][k].use \in {"wrong", "discrimination", "ungrounded"} =>
            marks[p][k].subject.answer[1] # Reference[marks[p][k].subject.case]
=============================================================================

----------------------------- MODULE JudgeAudit -----------------------------
(***************************************************************************)
(* The judge audit and the judge matrix (evaluation/judge_audit.py), next  *)
(* to the runs of EvalRun on the same cache and history.                   *)
(*                                                                         *)
(* An audit is a fixed list of judge calls with three kinds of marks in    *)
(* between: the cache is turned off, the settings are put back, the model  *)
(* is changed.  A text is whose reference it comes from, whether it was    *)
(* cut to its first half, and how it is dressed.                           *)
(***************************************************************************)
EXTENDS EvalRun, JudgeStats

CONSTANTS
    Reference,       \* the reference answer of each case
    OneSentence,     \* references that truncate_half leaves whole
    Perturbations    \* PERTURBATIONS, in order

ASSUME AuditAssumption ==
    /\ Perturbations \in Seq(STRING)
    /\ \A s \in Scenario : \A p \in Process :
          /\ s[p].tool = "audit" =>
                s[p].probes \in Seq({"ceiling", "boundary", "discrimination"}) /\ s[p].retest \in Nat
          /\ s[p].tool = "matrix" => s[p].models \in Seq(Model)

VARIABLES
    plan,        \* what is left of the audit
    saved,       \* prev_model and prev_cache, while a try block has changed them
    marks        \* the scores so far, each with what it was for

auditing == <<plan, saved, marks>>

NoSettings == [model |-> "none", enabled |-> FALSE]

AuditInit ==
    /\ EvalInit
    /\ plan = [p \in Process |-> << >>]
    /\ saved = [p \in Process |-> NoSettings]
    /\ marks = [p \in Process |-> << >>]

-----------------------------------------------------------------------------
\* The answers

Half(case) == <<Reference[case], IF Reference[case] \in OneSentence THEN "whole" ELSE "half">>
Whole(case) == <<Reference[case], "whole">>

\* cross_pair_answers: the reference of the case after this one.
CrossPaired(cases, k) == Whole(cases[(k % Len(cases)) + 1])

Base(probe, cases, k) ==
    CASE probe = "ceiling" -> Whole(cases[k])
      [] probe = "boundary" -> Half(cases[k])
      [] probe = "discrimination" -> CrossPaired(cases, k)

\* The prompts of correctness, on either scale, show the reference of the case,
\* which the case determines; those of relevancy do not.
JudgeTask(use, metric, case, text, dress) ==
    [do |-> "judge", use |-> use,
     subject |-> [metric |-> metric, case |-> case, files |-> {}, answer |-> <<text[1], text[2], dress>>]]

Mark(do) == [do |-> do, use |-> "none", subject |-> "none"]
UseModel(m) == [do |-> "model", use |-> m, subject |-> "none"]

\* One score for each case.
Scoring(use, metric, cases, Text(_), dress) ==
    [k \in DOMAIN cases |-> JudgeTask(use, metric, cases[k], Text(k), dress)]

-----------------------------------------------------------------------------
\* The parts of run_audit

ProbeMetrics(probe) == IF probe = "ceiling" THEN <<"correctness", "relevancy">> ELSE <<"correctness">>

Dresses(probe) ==
    <<"plain">> \o Perturbations \o (IF probe = "ceiling" THEN << >> ELSE <<"padded">>)

\* One probe: for each metric the base answers, then each of their perturbations.
Probe(probe, cases) ==
    LET Text(k) == Base(probe, cases, k)
        Metric1(metric) ==
            FlattenSeq([d \in DOMAIN Dresses(probe) |->
                           Scoring(probe, metric, cases, Text, Dresses(probe)[d])])
    IN  IF probe = "discrimination" /\ Len(cases) < 2 THEN <<Mark("raise")>>
        ELSE FlattenSeq([m \in DOMAIN ProbeMetrics(probe) |-> Metric1(ProbeMetrics(probe)[m])])

\* Fault: the cache is left as it is for the repeats.
RetestCached(repeats, cases) ==
    FlattenSeq([k \in DOMAIN cases |->
        [n \in 1 .. repeats |-> JudgeTask("retest", "correctness", cases[k], Half(cases[k]), "plain")]])

\* run_stability: each case's boundary answer, some times, with the cache off.
Retest(repeats, cases) ==
    IF repeats < 2 THEN << >>
    ELSE <<Mark("off")>>
         \o FlattenSeq([k \in DOMAIN cases |->
                [n \in 1 .. repeats |-> JudgeTask("retest", "correctness", cases[k], Half(cases[k]), "plain")]])
         \o <<Mark("restore")>>

\* run_scale_check: the boundary answers on both scales.
ScaleCheck(cases) ==
    LET Text(k) == Half(cases[k])
    IN  Scoring("numeric", "correctness", cases, Text, "plain") \o Scoring("letter", "letter", cases, Text, "plain")

\* run_kappa_check: right answers, then cross-paired ones.
KappaCheck(cases) ==
    LET Right(k) == Whole(cases[k])
        Wrong(k) == CrossPaired(cases, k)
    IN  Scoring("right", "correctness", cases, Right, "plain")
        \o IF Len(cases) < 2 THEN <<Mark("raise")>>
           ELSE Scoring("wrong", "correctness", cases, Wrong, "plain")

RunAudit(probes, retest, scales, kappa, cases) ==
    FlattenSeq([n \in DOMAIN probes |-> Probe(probes[n], cases)])
    \o Retest(retest, cases)
    \o (IF scales THEN ScaleCheck(cases) ELSE << >>)
    \o (IF kappa THEN KappaCheck(cases) ELSE << >>)

AllProbes == <<"ceiling", "boundary", "discrimination">>

\* run_selection_matrix: an audit for each model, all of it with the cache off.
Matrix(models, cases) ==
    <<Mark("off")>>
    \o FlattenSeq([n \in DOMAIN models |->
           <<UseModel(models[n])>> \o RunAudit(AllProbes, 0, FALSE, FALSE, cases)])
    \o <<Mark("restore")>>

-----------------------------------------------------------------------------
\* Actions

Next1(p) == Head(plan[p])
Doing(p, do) == pc[p] = "audit" /\ plan[p] # << >> /\ Next1(p).do = do
Done1(p) == plan' = [plan EXCEPT ![p] = Tail(@)]

\* prev_cache = settings.llm_cache_enabled, and off.
CacheOff(p) ==
    /\ Doing(p, "off")
    /\ saved' = [saved EXCEPT ![p] = [model |-> model[p], enabled |-> enabled[p]]]
    /\ enabled' = [enabled EXCEPT ![p] = FALSE]
    /\ Done1(p)
    /\ UNCHANGED <<rows, model, call, stored, repaid, given, running, file, faults, marks>>

\* The finally block.
PutBack(p) ==
    /\ saved' = [saved EXCEPT ![p] = NoSettings]
    /\ IF saved[p] = NoSettings THEN UNCHANGED <<enabled, model>>
       ELSE /\ enabled' = [enabled EXCEPT ![p] = saved[p].enabled]
            /\ model' = [model EXCEPT ![p] = saved[p].model]

Restore(p) ==
    /\ Doing(p, "restore")
    /\ PutBack(p)
    /\ Done1(p)
    /\ UNCHANGED <<rows, call, stored, repaid, given, running, file, faults, marks>>

SetModel(p) ==
    /\ Doing(p, "model")
    /\ model' = [model EXCEPT ![p] = Next1(p).use]
    /\ Done1(p)
    /\ UNCHANGED <<rows, enabled, call, stored, repaid, given, running, file, faults, saved, marks>>

AskForMark(p) ==
    /\ Doing(p, "judge")
    /\ Ask(p, Next1(p).subject)
    /\ UNCHANGED <<running, file, faults, auditing>>

TakeMark(p) ==
    /\ Doing(p, "judge") /\ call[p].state = "scored"
    /\ marks' = [marks EXCEPT ![p] =
           Append(@, [use |-> Next1(p).use, subject |-> Next1(p).subject, model |-> model[p],
                      score |-> call[p].score, paid |-> call[p].paid])]
    /\ Done1(p)
    /\ Returned(p)
    /\ UNCHANGED <<running, file, faults, saved>>

\* Any exception ends the command: nothing of it is written.
EndAudit(p) ==
    /\ Goto(p, "failed")
    /\ PutBack(p)
    /\ call' = [call EXCEPT ![p] = NoCall]
    /\ plan' = [plan EXCEPT ![p] = << >>]
    /\ marks' = [marks EXCEPT ![p] = << >>]

AuditFails(p) ==
    /\ \/ Doing(p, "raise")
       \/ Doing(p, "judge") /\ call[p].state = "raised"
    /\ EndAudit(p)
    /\ UNCHANGED <<rows, stored, repaid, given, command, config, results, outcome, scores, table, file, faults>>

AuditTask(p) ==
    \/ CacheOff(p) \/ Restore(p) \/ SetModel(p)
    \/ AskForMark(p) \/ TakeMark(p) \/ AuditFails(p)

-----------------------------------------------------------------------------
\* The statistics of a report

ScoresFor(p, use, metric, dress) ==
    LET For(m) == m.use = use /\ m.subject.metric = metric /\ m.subject.answer[3] = dress
        Chosen == Among(marks[p], {m \in ToSet(marks[p]) : For(m)})
    IN  [k \in DOMAIN Chosen |-> Chosen[k].score]

Kappa(p) ==
    KappaStats(ScoresFor(p, "right", "correctness", "plain"), ScoresFor(p, "wrong", "correctness", "plain"),
               Threshold)

Scales(p) ==
    ShiftStats(ScoresFor(p, "numeric", "correctness", "plain"), ScoresFor(p, "letter", "letter", "plain"),
               Threshold)
=============================================================================

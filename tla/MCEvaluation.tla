---------------------------- MODULE MCEvaluation ----------------------------
(* Two processes and two cases, of which the second is unanswerable. *)
EXTENDS SideProbes

CONSTANTS p1, p2, m1, m2

MCOrder == <<"pods", "unknown">>
MCRelevant == [c \in {"pods", "unknown"} |-> IF c = "pods" THEN {"f1", "f2"} ELSE {}]
MCReference == [c \in {"pods", "unknown"} |-> IF c = "pods" THEN "pod" ELSE "refusal"]
MCOutcome ==
    [c \in {"pods", "unknown"} |->
        IF c = "pods" THEN {[files |-> {"f1"}, answer |-> "text"], [files |-> {"f1", "f2"}, answer |-> "blank"]}
        ELSE {[files |-> {}, answer |-> "refusal"], [files |-> {"f1"}, answer |-> "text"]}]

MCSubject ==
    [metric : {"precision", "faithfulness", "correctness", "relevancy"}, case : {"pods", "unknown"},
     files : SUBSET {"f1", "f2"},
     answer : {"none", "text", "refusal", "blank", "s1"} \X {"generated"} \X {"plain"}]
    \cup [metric : {"correctness", "letter", "relevancy"}, case : {"pods", "unknown"}, files : {{}},
          answer : {"pod", "refusal"} \X {"whole", "half"} \X {"plain", "bullets", "padded"}]
    \cup [metric : {"faithfulness"}, case : {"pods", "unknown"}, files : SUBSET {"pod", "refusal"},
          answer : {<<"pod", "whole", "plain">>, <<"refusal", "whole", "plain">>, <<"text", "generated", "plain">>}]

\* Where the judge may waver: the correctness of a generated text, of a first
\* half and of a cross-paired answer, and the letter scale.
MCReplyOf ==
    [s \in MCSubject |->
        CASE s.metric = "precision" -> {1}
          [] s.metric = "faithfulness" -> IF s.answer[1] = "s1" /\ s.files = {"f2"} THEN {0} ELSE {NaN}
          [] s.metric = "relevancy" -> {3}
          [] s.metric = "letter" -> IF s.case = "pods" THEN {0, 2} ELSE {2}
          [] s.answer[2] = "half" -> IF s.answer[3] = "plain" THEN {1, 2} ELSE {2}
          [] s.answer[1] = "text" -> {Junk, 2}
          [] s.answer[3] = "plain" /\ s.answer[1] # MCReference[s.case] -> {0, 2}
          [] OTHER -> {2}]

Dense(loop) == [strategy |-> "dense", corrective |-> loop]
Eval(strategy, cases, on) ==
    [tool |-> "eval", configs |-> <<[strategy |-> strategy, corrective |-> FALSE]>>, wanted |-> cases,
     cached |-> on, model |-> m1]
Ablation(cases) ==
    [tool |-> "ablation", configs |-> <<Dense(FALSE), Dense(TRUE)>>, wanted |-> cases, cached |-> TRUE, model |-> m1]
Audit(probes, retest, scales, kappa, m, cases) ==
    [tool |-> "audit", configs |-> << >>, wanted |-> cases, cached |-> TRUE, model |-> m,
     probes |-> probes, retest |-> retest, scales |-> scales, kappa |-> kappa]
TwoModels ==
    [tool |-> "matrix", configs |-> << >>, wanted |-> {}, cached |-> TRUE, model |-> m1, models |-> <<m1, m2>>]
Reliability(judge) ==
    [tool |-> "reliability", configs |-> <<Dense(FALSE)>>, wanted |-> {}, cached |-> TRUE, model |-> m1,
     judge |-> judge]
Probe1(tool, on) == [tool |-> tool, configs |-> << >>, wanted |-> {}, cached |-> on, model |-> m1]
Human(n, labels) ==
    [tool |-> "human", configs |-> << >>, wanted |-> {}, cached |-> TRUE, model |-> m1, n |-> n, labels |-> labels]
Idle == [tool |-> "none", configs |-> << >>, wanted |-> {}]

Both(a, b) == [p \in {p1, p2} |-> IF p = p1 THEN a ELSE b]

MCScenario ==
    {Both(Eval("dense", {}, TRUE), Eval("hyde", {"pods"}, TRUE)),
     Both(Ablation({"pods"}), Eval("dense", {"unknown"}, FALSE)),
     Both(Ablation({"other"}), Eval("dense", {"other"}, TRUE)),
     Both(Audit(<<"boundary">>, 2, TRUE, FALSE, m1, {}), Audit(<<"boundary">>, 0, FALSE, FALSE, m1, {"pods"})),
     Both(Audit(<< >>, 0, FALSE, TRUE, m1, {}), Audit(<< >>, 0, FALSE, TRUE, m2, {})),
     Both(Audit(<<"discrimination">>, 0, FALSE, FALSE, m1, {"pods"}), Audit(<< >>, 0, FALSE, TRUE, m1, {"pods"})),
     Both(TwoModels, Idle),
     Both(Reliability(TRUE), Idle),
     Both(Reliability(FALSE), Idle),
     Both(Probe1("citation", TRUE), Probe1("noise", TRUE)),
     Both(Probe1("security", FALSE), Probe1("abstention", FALSE)),
     Both(Probe1("reference_free", TRUE), Human(2, <<"correct", "blank", "incorrect", "incorrect">>)),
     Both(Human(1, <<"blank", "blank">>), Audit(<< >>, 0, FALSE, TRUE, m1, {}))}

\* Two unanswerable cases: their reference is the same refusal.
MCNothingRelevant == [c \in {"pods", "unknown"} |-> {}]
MCSameReference == [c \in {"pods", "unknown"} |-> "refusal"]
MCKappaAudit == {Both(Audit(<< >>, 0, FALSE, TRUE, m1, {}), Idle)}

\* The second marker of the first answer is a stray one.
MCCited ==
    [c \in {"pods", "unknown"} |->
        IF c = "pods"
        THEN {[passages |-> <<"f1">>, sentences |-> <<[text |-> "s1", markers |-> {1, 2}]>>],
              [passages |-> <<"f1", "f2">>, sentences |-> <<[text |-> "s1", markers |-> {1, 2}]>>]}
        ELSE {[passages |-> <<"f1">>, sentences |-> <<[text |-> "s2", markers |-> {}]>>]}]
MCInjected == {<<0, 0>>}
MCCounterfactual == {<<0>>, <<2>>}
MCNoise == <<0, 1>>
MCPerturbations == <<"bullets">>
MCMetrics == <<"precision", "faithfulness", "correctness", "relevancy">>
=============================================================================

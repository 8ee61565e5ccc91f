------------------------------- MODULE EvalRun -------------------------------
(***************************************************************************)
(* The evaluation runner (evaluation/runner.py), the ablation over several *)
(* configurations (evaluation/ablation.py) and the append-only history     *)
(* (evaluation/history.py), as processes that share the judge cache and    *)
(* the history file.                                                       *)
(*                                                                         *)
(* A run judges its cases one after the other and keeps everything in      *)
(* memory until its one line of history: it may fail at any call, die, or  *)
(* find the disk full in the middle of that line.  What a pipeline makes   *)
(* of a question is an outcome: the files its passages come from, and an   *)
(* answer.  Latencies, costs, spans and the export of results are left out.*)
(***************************************************************************)
EXTENDS JudgeCache, SequencesExt, FiniteSetsExt

CONSTANTS
    Order,           \* the golden cases, in the order of their files
    Relevant,        \* relevant_doc_ids of each case
    Outcome,         \* [files, answer]: what retrieval and generation may make of each case
    Metrics,         \* the judged metrics, in the order of evaluate_case
    Gate,            \* the metrics of the gate, "recall" among them
    Threshold,       \* the gate's threshold
    RbiRelevancyMin, RbiCorrectnessMax,
    Scenario,        \* what the processes run: functions from Process to commands
    MaxFaults        \* bound: failed calls, full disks and dead processes

Configuration == [strategy : STRING, corrective : BOOLEAN]

\* The commands that begin with run_eval.
Runs == {"eval", "ablation", "reliability"}

\* run_ablation tries each strategy with and without the loop, once.
ASSUME ScenarioAssumption ==
    \A s \in Scenario : \A p \in Process : s[p].tool \in Runs =>
        /\ s[p].configs \in Seq(Configuration) /\ s[p].configs # << >>
        /\ \A j, k \in DOMAIN s[p].configs : s[p].configs[j] = s[p].configs[k] => j = k

ASSUME EvalAssumption ==
    /\ Order \in Seq(DOMAIN Relevant) /\ Metrics \in Seq(STRING)
    /\ \A k \in DOMAIN Order : \A o \in Outcome[Order[k]] : o.files = {} => o.answer = "refusal"
    /\ Threshold \in Level /\ RbiRelevancyMin \in Level /\ RbiCorrectnessMax \in Level

VARIABLES
    command,     \* what each process was started with
    pc,
    config,      \* the position of its configuration
    results,     \* results of run_eval, so far
    outcome,     \* of the case being judged
    scores,      \* of that case, so far
    table,       \* runs of run_ablation
    lines,       \* runs.jsonl: each line with its entry, readable or not
    cut,         \* the last line lacks its end
    recorded,    \* history: entries whose append completed
    faults

running == <<command, pc, config, results, outcome, scores, table>>
file == <<lines, cut, recorded>>
vars == <<judging, running, file, faults>>

NoOutcome == [files |-> {}, answer |-> "none"]

EvalInit ==
    /\ JudgeInit
    /\ command \in Scenario
    /\ pc = [p \in Process |-> "idle"]
    /\ config = [p \in Process |-> 0]
    /\ results = [p \in Process |-> << >>]
    /\ outcome = [p \in Process |-> NoOutcome]
    /\ scores = [p \in Process |-> << >>]
    /\ table = [p \in Process |-> << >>]
    /\ lines = << >> /\ cut = FALSE /\ recorded = {}
    /\ faults = 0

Configs(p) == command[p].configs
Config(p) == Configs(p)[config[p]]

\* The elements of s that are in S, in order: SelectSeq, as a recursion that a
\* proof can follow.
Among(s, S) ==
    LET taken[n \in 0 .. Len(s)] ==
            IF n = 0 THEN << >>
            ELSE IF s[n] \in S THEN Append(taken[n - 1], s[n]) ELSE taken[n - 1]
    IN  taken[Len(s)]

\* load_golden_cases and case_filter: an empty filter filters nothing.
Cases(p) == IF command[p].wanted = {} THEN Order ELSE Among(Order, command[p].wanted)

Goto(p, l) == pc' = [pc EXCEPT ![p] = l]

-----------------------------------------------------------------------------
\* The next configuration of the ablation; run_eval on its own has only one.
NextConfig(p, ending) ==
    IF config[p] < Len(Configs(p))
    THEN Goto(p, "load") /\ config' = [config EXCEPT ![p] = @ + 1]
    ELSE Goto(p, ending) /\ UNCHANGED config

\* An exception: run_ablation logs it and goes on, every other command ends.
GiveUp(p) ==
    IF command[p].tool = "ablation" THEN NextConfig(p, "done")
    ELSE Goto(p, "failed") /\ UNCHANGED config

\* The command starts: it opts in to the cache, or overrides the judge's model.
Start(p) ==
    /\ pc[p] = "idle" /\ command[p].tool \in Runs
    /\ enabled' = [enabled EXCEPT ![p] = command[p].cached]
    /\ model' = [model EXCEPT ![p] = command[p].model]
    /\ stored' = [stored EXCEPT ![p] = DOMAIN rows]
    /\ Goto(p, "load")
    /\ config' = [config EXCEPT ![p] = 1]
    /\ UNCHANGED <<rows, call, repaid, given, command, results, outcome, scores, table, file, faults>>

\* run_eval selects its cases, and raises if there are none.
Load(p) ==
    /\ pc[p] = "load"
    /\ IF Cases(p) = << >> THEN GiveUp(p) ELSE Goto(p, "generate") /\ UNCHANGED config
    /\ results' = [results EXCEPT ![p] = << >>]
    /\ UNCHANGED <<judging, command, outcome, scores, table, file, faults>>

This(p) == Cases(p)[Len(results[p]) + 1]

\* evaluate_case: retrieve and generate, or the corrective loop.
Generate(p) ==
    /\ pc[p] = "generate"
    /\ \E o \in Outcome[This(p)] : outcome' = [outcome EXCEPT ![p] = o]
    /\ scores' = [scores EXCEPT ![p] = << >>]
    /\ Goto(p, "judge")
    /\ UNCHANGED <<judging, command, config, results, table, file, faults>>

GenerateRaises(p) ==
    /\ pc[p] = "generate"
    /\ faults < MaxFaults /\ faults' = faults + 1
    /\ GiveUp(p)
    /\ UNCHANGED <<judging, command, results, outcome, scores, table, file>>

\* What a metric's prompts say: precision does not see the answer, and relevancy
\* sees neither passages nor reference.
SubjectOf(metric, case, o) ==
    [metric |-> metric, case |-> case,
     files |-> IF metric \in {"precision", "faithfulness"} THEN o.files ELSE {},
     answer |-> <<IF metric = "precision" THEN "none" ELSE o.answer, "generated", "plain">>]

\* context_precision without passages and answer_relevancy of a blank answer are 0.0.
Unasked(metric, o) ==
    \/ metric = "precision" /\ o.files = {}
    \/ metric = "relevancy" /\ o.answer = "blank"

Metric(p) == Metrics[Len(scores[p]) + 1]

AskJudge(p) ==
    /\ pc[p] = "judge" /\ Len(scores[p]) < Len(Metrics)
    /\ ~Unasked(Metric(p), outcome[p])
    /\ Ask(p, SubjectOf(Metric(p), This(p), outcome[p]))
    /\ UNCHANGED <<running, file, faults>>

SkipJudge(p) ==
    /\ pc[p] = "judge" /\ Len(scores[p]) < Len(Metrics)
    /\ Unasked(Metric(p), outcome[p])
    /\ scores' = [scores EXCEPT ![p] = Append(@, 0)]
    /\ UNCHANGED <<judging, command, pc, config, results, outcome, table, file, faults>>

TakeScore(p) ==
    /\ pc[p] = "judge" /\ call[p].state = "scored"
    /\ scores' = [scores EXCEPT ![p] = Append(@, call[p].score)]
    /\ Returned(p)
    /\ UNCHANGED <<command, pc, config, results, outcome, table, file, faults>>

JudgeRaised(p) ==
    /\ pc[p] = "judge" /\ call[p].state = "raised"
    /\ GiveUp(p)
    /\ Returned(p)
    /\ UNCHANGED <<command, results, outcome, scores, table, file, faults>>

\* context_recall, on the grid.
Recall(case, files) ==
    IF Relevant[case] = {} THEN Top
    ELSE (Top * Cardinality(Relevant[case] \cap files)) \div Cardinality(Relevant[case])

\* The EvalResult; of the answer and the files only the model's history is kept.
EndCase(p) ==
    LET result == [case |-> This(p), outcome |-> outcome[p],
                   recall |-> Recall(This(p), outcome[p].files), scores |-> scores[p]]
    IN  /\ pc[p] = "judge" /\ Len(scores[p]) = Len(Metrics)
        /\ results' = [results EXCEPT ![p] = Append(@, result)]
        /\ Goto(p, IF Len(results[p]) + 1 = Len(Cases(p)) THEN "record" ELSE "generate")
        /\ outcome' = [outcome EXCEPT ![p] = NoOutcome]
        /\ scores' = [scores EXCEPT ![p] = << >>]
        /\ UNCHANGED <<judging, command, config, table, file, faults>>

-----------------------------------------------------------------------------
\* The summary and its line of history

Scored(result, metric) ==
    IF metric = "recall" THEN result.recall
    ELSE result.scores[CHOOSE k \in DOMAIN Metrics : Metrics[k] = metric]

Total(rs, metric) == FoldLeft(LAMBDA sum, r : sum + Scored(r, metric), 0, rs)

\* The gate: every mean at its threshold or above.
Passed(rs) == \A metric \in Gate : Total(rs, metric) >= Threshold * Len(rs)

Entry(p) ==
    [process |-> p, strategy |-> Config(p).strategy, corrective |-> Config(p).corrective,
     passed |-> Passed(results[p]), results |-> results[p]]

\* is_relevant_but_incorrect, counted.
RbiCount(rs) ==
    Cardinality({k \in DOMAIN rs : /\ Scored(rs[k], "relevancy") > RbiRelevancyMin
                                   /\ Scored(rs[k], "correctness") < RbiCorrectnessMax})

\* Fault: the file is opened for writing, not for appending.
WrittenAnew(entry, readable) == <<[entry |-> entry, readable |-> readable]>>

\* Text at the end of the file: after a line that was cut off it only makes that
\* line longer, and no such line is one entry of JSON.
Written(entry, readable) ==
    IF cut THEN [lines EXCEPT ![Len(lines)].readable = FALSE]
    ELSE Append(lines, [entry |-> entry, readable |-> readable])

\* record_run appends its line; only then does the ablation count the run.
FinishRun(p) ==
    /\ pc[p] = "record"
    /\ command[p].tool # "reliability"
    /\ lines' = Written(Entry(p), TRUE)
    /\ cut' = FALSE
    /\ recorded' = recorded \cup {Entry(p)}
    /\ table' = [table EXCEPT ![p] = Append(@, [config |-> Config(p), rbi |-> RbiCount(results[p])])]
    /\ NextConfig(p, "done")
    /\ UNCHANGED <<judging, command, results, outcome, scores, faults>>

\* An audit "must not append" (audit.py:109): its summary stays in memory.
FinishUnrecorded(p) ==
    /\ pc[p] = "record"
    /\ command[p].tool = "reliability"
    /\ Goto(p, "plan")
    /\ UNCHANGED <<judging, command, config, results, outcome, scores, table, file, faults>>

\* Fault: only run_eval stands within the ablation's try.
RecordFailsCounted(p) ==
    /\ pc[p] = "record" /\ command[p].tool # "reliability"
    /\ faults < MaxFaults /\ faults' = faults + 1
    /\ \E readable \in BOOLEAN : lines' = Written(Entry(p), readable)
    /\ cut' = TRUE
    /\ GiveUp(p)
    /\ table' = [table EXCEPT ![p] = Append(@, [config |-> Config(p), rbi |-> RbiCount(results[p])])]
    /\ UNCHANGED <<judging, command, results, outcome, scores, recorded>>

\* The append fails after a part of the line, or all of it but its end, was written.
RecordFails(p) ==
    /\ pc[p] = "record" /\ command[p].tool # "reliability"
    /\ faults < MaxFaults /\ faults' = faults + 1
    /\ \E readable \in BOOLEAN : lines' = Written(Entry(p), readable)
    /\ cut' = TRUE
    /\ GiveUp(p)
    /\ UNCHANGED <<judging, command, results, outcome, scores, table, recorded>>

\* The process dies; a reply under way is lost.
Crash(p) ==
    /\ pc[p] \notin {"idle", "done", "failed", "dead"}
    /\ faults < MaxFaults /\ faults' = faults + 1
    /\ Goto(p, "dead")
    /\ Returned(p)
    /\ UNCHANGED <<command, config, results, outcome, scores, table, file>>

JudgeFails(p) ==
    /\ faults < MaxFaults /\ faults' = faults + 1
    /\ JudgeRaises(p)
    /\ UNCHANGED <<running, file>>

JudgeReplies(p) == Replies(p) /\ UNCHANGED <<running, file, faults>>

EvalStep(p) ==
    \/ Start(p) \/ Load(p) \/ Generate(p) \/ GenerateRaises(p)
    \/ AskJudge(p) \/ SkipJudge(p) \/ JudgeReplies(p) \/ JudgeFails(p) \/ TakeScore(p) \/ JudgeRaised(p)
    \/ EndCase(p) \/ FinishRun(p) \/ FinishUnrecorded(p) \/ RecordFails(p)

-----------------------------------------------------------------------------
\* Reading the history

\* What load_history finds: it skips what it cannot parse.
History == {lines[k].entry : k \in {j \in DOMAIN lines : lines[j].readable}}

-----------------------------------------------------------------------------
\* Properties

\* The scores of a case are those that a model gave to what came of it.
Earned(m, result) ==
    \A k \in DOMAIN Metrics :
        IF Unasked(Metrics[k], result.outcome) THEN result.scores[k] = 0
        ELSE <<m, SubjectOf(Metrics[k], result.case, result.outcome), result.scores[k]>> \in given

\* The record of one whole run.
HistoryEarned ==
    \A e \in History :
        /\ [k \in DOMAIN e.results |-> e.results[k].case] = Cases(e.process)
        /\ \A k \in DOMAIN e.results : Earned(command[e.process].model, e.results[k])

\* No entry is in the file twice, and a line that cannot be read hides at most
\* one run that was recorded whole: a "corrupted line at the tail should not hide
\* the intact history above it" (history.py:128), nor more than one run below.
LossBounded ==
    /\ \A j, k \in DOMAIN lines : lines[j].entry = lines[k].entry => j = k
    /\ Cardinality(recorded \ History) <= Cardinality({k \in DOMAIN lines : ~lines[k].readable})

\* The table of an ablation has a row for each configuration whose append to the
\* history completed, in order, and for no other; it ends with every configuration
\* tried, whichever of them raised.  An append that fails after the entry, in its
\* newline, leaves an entry that can be read and a table without it.
TableRecorded ==
    \A p \in Process : command[p].tool = "ablation" =>
        LET rowsOf == [k \in DOMAIN table[p] |-> table[p][k].config]
            kept == {[strategy |-> e.strategy, corrective |-> e.corrective] : e \in {r \in recorded : r.process = p}}
        IN  /\ rowsOf = Among(Configs(p), kept)
            /\ pc[p] # "failed"
            /\ (pc[p] = "done" /\ Cases(p) # << >>) => Len(Configs(p)) - Len(table[p]) <= faults
=============================================================================

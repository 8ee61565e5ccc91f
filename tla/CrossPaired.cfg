SPECIFICATION Spec
CONSTANTS
    p1 = p1
    p2 = p2
    m1 = m1
    m2 = m2
    Process = {p1, p2}
    Model = {m1, m2}
    Subject <- MCSubject
    Top = 2
    Junk = Junk
    NaN = NaN
    ReplyOf <- MCReplyOf
    Order <- MCOrder
    Relevant <- MCNothingRelevant
    Outcome <- MCOutcome
    Metrics <- MCMetrics
    Gate = {"recall", "faithfulness", "correctness"}
    Threshold = 2
    RbiRelevancyMin = 1
    RbiCorrectnessMax = 1
    Scenario <- MCKappaAudit
    MaxFaults = 1
    Reference <- MCSameReference
    OneSentence = {"refusal"}
    Perturbations <- MCPerturbations
    CitedAnswers <- MCCited
    SupportAt = 1
    Questions = 2
    Refused = {1, 2}
    Injected <- MCInjected
    Counterfactual <- MCCounterfactual
    NoiseLevels <- MCNoise
    NoisyAnswers = {"text"}
INVARIANTS CrossPairedWrong

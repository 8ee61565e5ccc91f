SPECIFICATION Spec
CONSTANTS
    TopK = 3
    Top = 4
    CorrectThreshold = 3
    IncorrectThreshold = 2
    NaN = NaN
    MaxRetries = 2
    GatewayEnabled = TRUE
INVARIANTS OnlyGradedChunks BestChunksSurvive CostBounded
PROPERTIES GroundedSpec Terminates

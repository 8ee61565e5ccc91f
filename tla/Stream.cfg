SPECIFICATION Spec
CONSTANTS
    MaxDeltas = 4
    ClosedLoop = TRUE
INVARIANTS FrameOrder OutcomeCounted CompleteView
PROPERTIES Settles
CHECK_DEADLOCK FALSE

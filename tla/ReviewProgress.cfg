SPECIFICATION Spec
CONSTANTS
    q1 = q1
    q2 = q2
    q3 = q3
    a = a
    b = b
    Question = {q1, q2, q3}
    Category = {a, b}
    CategoryOf <- MCCategoryOf
    Queued = {q1, q2}
    Captured = {}
    StatusChoice = {"pending"}
    Lowercases = FALSE
    MaxNumber = 0
    MaxSessions = 1
    MaxCrashes = 1
INVARIANTS ProgressKept
CHECK_DEADLOCK FALSE

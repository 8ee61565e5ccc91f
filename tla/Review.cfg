SPECIFICATION Spec
CONSTANTS
    q1 = q1
    q2 = q2
    q3 = q3
    a = a
    b = b
    Question = {q1, q2, q3}
    Category = {a, b}
    CategoryOf <- MCCategoryOf
    Queued = {q1, q2}
    Captured = {q3}
    StatusChoice = {"pending", "flagged", "skipped"}
    Lowercases = FALSE
    MaxNumber = 2
    MaxSessions = 2
    MaxCrashes = 1
INVARIANTS CasesMatchRows CountsAgree NumbersUnique
PROPERTIES DecisionsKept
CHECK_DEADLOCK FALSE

SPECIFICATION ExpansionSpec
CONSTANTS
    q1 = q1
    q2 = q2
    q3 = q3
    s1 = s1
    u1 = u1
    u2 = u2
    net = net
    rbac = rbac
    vs = vs
    un = un
    c1 = c1
    c2 = c2
    c3 = c3
    c4 = c4
    Question = {q1, q2, q3, s1, u1, u2}
    Category = {net, rbac, vs, un}
    CategoryOf <- MCCategoryOf
    Queued = {q1}
    Captured = {q3}
    StatusChoice = {"pending"}
    Lowercases = TRUE
    MaxNumber = 0
    MaxSessions = 1
    MaxCrashes = 1
    Chunk = {c1, c2, c3, c4}
    NoChunk = NoChunk
    TopicOf <- MCTopicOf
    Rank <- MCRank
    Versioned = {c1}
    VersionSensitive = vs
    Unanswerable = un
    DraftsOf <- MCDraftsOf
    Answered = {u2}
    Twin <- MCTwin
    NTopic = 2
    NVersion = 1
    NUnanswerable = 1
    Oversample = 2
    MaxExpansions = 1
INVARIANTS GateKept NoTwins FairShare
CHECK_DEADLOCK FALSE

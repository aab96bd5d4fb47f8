SPECIFICATION FairSpec
CONSTANTS
    u1 = u1  u2 = u2  u3 = u3  p1 = p1  p2 = p2  f1 = f1
    Urls = {u1, u2, u3}
    Passages = {p1, p2}
    Fields = {f1}
    Mentions <- MCMentions
    Holds <- MCHolds
    Quality <- MCQuality
    Requests <- MCRequests
    MaxSteps = 3
    MaxPages = 2
    MaxSearches = 2
    MaxRounds = 2
    MinDiversity = 2
    MaxResults = 1
    MaxAsks = 2
    NoUrl = NoUrl
    NoResult = NoResult
INVARIANTS WorkWithinBudget CitationsGrounded
PROPERTY JobEnds
CHECK_DEADLOCK FALSE

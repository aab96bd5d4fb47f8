SPECIFICATION FairSpec
CONSTANTS
    Requests = {r1, r2}
    MaxConcurrency = 1
    Kinds <- MCKinds
    PageOf <- MCPageOf
    Answers <- MCAnswers
    Permits = 1
    LlmEnabled = TRUE
    MaxRetries = 1
    MaxRepairs = 1
    MaxItems = 1
    MaxDepth = 2
    MaxProperties = 2
    MaxChunks = 2
    MaxContext = 2
    Aliases <- MCAliases
    NoSchema = NoSchema
    NotJson = NotJson
    Nothing = Nothing
INVARIANTS TypeOK ValidatedIsValid CallsReported
PROPERTY ExtractionsAnswered
CHECK_DEADLOCK FALSE

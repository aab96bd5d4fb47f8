SPECIFICATION FairSpec
CONSTANTS
    Calls = {"c1", "c2"}
    Requests <- MCRequests
    Existing <- MCExisting
    Stored <- MCStored
    ChunksOf <- MCChunksOf
    TextOf <- MCTextOf
    TokensOf <- MCTokensOf
    Similarity <- MCSimilarity
    Relevance <- MCRelevance
    EmbeddingsEnabled = TRUE
    LlmEnabled = TRUE
    Permits = 2
    MaxBatch = 2
    MaxBatchTokens = 3
    MaxEntries = 1
    MaxPerDocument = 1
    MaxChunks = 3
    MaxContext = 4
    Nothing = Nothing
INVARIANTS TypeOK IndexedIsFound AnswersGrounded
PROPERTY CallsAnswered
CHECK_DEADLOCK FALSE

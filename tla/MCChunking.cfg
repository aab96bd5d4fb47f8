SPECIFICATION ChunkingSpec
CONSTANTS
    Documents <- MCDocuments
    TargetTokens = 3
    MaxTokens = 4
    MinTokens = 2
INVARIANTS NothingLost ChunksBounded SectionsKept
CHECK_DEADLOCK FALSE

\* One token in the engine's buffer per visit, a queue with room for two pieces.
SPECIFICATION LiveSpec
CONSTANTS
    Jobs = {1, 2, 3}
    Kinds <- Mixed
    MaxOutstanding = 2
    Questions = 2
    MaxTokens <- Tokens
    Token = t
    Capacity = 4
    ByteCapacity = 7
    Piece = 2
INVARIANTS OutstandingExact NothingLeaked StreamsIntact
PROPERTY EveryEndComes
\* The worker exits.
CHECK_DEADLOCK FALSE

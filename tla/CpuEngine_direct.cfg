CONSTANTS
    Specs <- TurnSpecs
    Registrations <- NoRegistrations
    Vocab = {1}
    MaxId = 3
    MaxResident = 2
    MaxQueued = 0
    MaxBatch = 1
    MaxBuffered = 1
    MaxContext = 4
    PrefillChunkSize = 2
    MaxPrefixBytes = 3
    Charge <- OneEach
    Bytes <- OneEach
    Namespaces = {"", "a", "b"}
    Configs = {"engine"}
    Config = "engine"
    Lent <- LentShort
SPECIFICATION Spec
CHECK_DEADLOCK FALSE
INVARIANT KvWithinCapacity
PROPERTY TerminalIsFinal

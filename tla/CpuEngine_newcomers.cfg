CONSTANTS
    Specs <- LongAmongShort
    Registrations <- NoRegistrations
    Vocab = {1}
    MaxId = 3
    MaxResident = 2
    MaxQueued = 2
    MaxBatch = 1
    MaxBuffered = 2
    MaxContext = 4
    PrefillChunkSize = 1
    MaxPrefixBytes = 0
    Charge <- OneEach
    Bytes <- OneEach
    Namespaces = {"", "a", "b"}
    Configs = {"engine"}
    Config = "engine"
    Lent <- NoneLent
SPECIFICATION TurnsSpec
INVARIANT FairProgress

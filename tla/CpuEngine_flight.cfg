CONSTANTS
    Specs <- SharedSpecs
    Registrations <- NoRegistrations
    Vocab = {1}
    MaxId = 3
    MaxResident = 2
    MaxQueued = 2
    MaxBatch = 2
    MaxBuffered = 1
    MaxContext = 3
    PrefillChunkSize = 1
    MaxPrefixBytes = 2
    Charge <- OneEach
    Bytes <- OneEach
    Namespaces = {"", "a", "b"}
    Configs = {"engine"}
    Config = "engine"
    Lent <- NoneLent
SPECIFICATION LiveSpec
INVARIANTS StateIffWorkedOn SingleFlight FullHitHasHidden TokenAccounting
PROPERTY EveryRequestFinishes

CONSTANTS
    Specs <- StoreSpecs
    Registrations <- SharedRegistrations
    Vocab = {1}
    MaxId = 2
    MaxResident = 2
    MaxQueued = 2
    MaxBatch = 2
    MaxBuffered = 2
    MaxContext = 3
    PrefillChunkSize = 2
    MaxPrefixBytes = 3
    Charge <- OneEach
    Bytes <- OneEach
    Namespaces = {"", "a", "b"}
    Configs = {"engine", "other"}
    Config = "engine"
    Lent <- LentTwo
SPECIFICATION Spec
INVARIANTS PrefixIdentity WithinBudget
PROPERTY PinnedRetained

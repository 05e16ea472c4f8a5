CONSTANTS
    Specs <- LongAndShort
    Registrations <- NoRegistrations
    Vocab = {1, 2}
    MaxId = 3
    MaxResident = 3
    MaxQueued = 1
    MaxBatch = 2
    MaxBuffered = 2
    MaxContext = 4
    PrefillChunkSize = 2
    MaxPrefixBytes = 0
    Charge <- OneEach
    Bytes <- OneEach
    Namespaces = {"", "a", "b"}
    Configs = {"engine"}
    Config = "engine"
    Lent <- NoneLent
SPECIFICATION TurnsSpec
INVARIANTS TypeOK PausedIsReadable ReadNeverWraps
PROPERTIES ImplementsContract DeliveredStable OvertakenOnce

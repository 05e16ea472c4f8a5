\* Two workers of the page, two decisions of up to two questions each.
SPECIFICATION LiveSpec
CONSTANTS
    Files <- TwoFiles
    Weights = "model.q35h"
    Stores = {"opfs", "cache-api", "none"}
    Found <- Leftovers
    MaxQuestions = 2
    MaxSteps = 1
    Turns = 2
    MaxWorkers = 2
    MaxDecisions = 2
    MaxRevision = 1
    MaxInbox = 2
    MaxCalls = 3
INVARIANTS FlagsAreTrue EngineIsClean OnlyDamagedWeightsHinder OneLoop OnlyCancelledIfAsked
PROPERTIES DroppedIsNotApplied NeverStuck
CHECK_DEADLOCK FALSE

CONSTANTS
    Word = 4096
    Texts <- SmallTexts
    Character <- SmallCharacters
    Composed <- SmallComposed
    Tokenizers <- SmallTokenizers
    Schemas <- SmallSchemas
    Vocabulary <- Tokens
    EndTokens = {1}
    Rankings <- SmallRankings
    MaxText <- TextLimits
    Spaces = {" "}
    Digits = {"0", "1"}
    Hex = {"8", "d"}
    Plain = {"a"}
    MaxDigits = 1
    FileSizes = {20, 60, 192, 400}
    Keys <- SmallKeys
    Values <- SmallValues
    Counts = {0, 1, 2, 1400, 4095}
    Offsets = {0, 32, 96, 4095}
    Shapes <- SmallShapes
    Names <- SmallNames
    Plans <- SmallPlans
    RowPlans <- SmallRowPlans
    TypePlans <- SmallTypePlans
    Batches = {1, 3, 5, 8}
    Threads = {1, 3}
    Tile = 2
    Vectors = 3
    TokenGroup = 2
    TileGroup = 2
    Logits <- SmallLogits
    Infinity = 1000
    Exp <- SmallExp
    Heads <- SmallHeads
    Participants = {0, 2, 3, 5}
    Counted = {0, 2}
    TopKs = {0, 1, 3, 9}
    TopPs <- SmallTopPs
    Picks <- SmallPicks
    HeadPlans <- SmallHeadPlans
    MaxTokens = 5
    Positions = {0, 3}
    MaxThreads = 3
    Slopes = {2, 4}
    QueryTiles = {2, 4}
    LeastQueryTile = 2
    KvTile = 3
    RowLimit = 4
    FullDim = 8
    OddDim = 11
    Lanes = 2
    Prompts <- SmallPrompts
    Layers <- SmallLayers
    ConvKernels = {1, 3}
    LinearHeads = 2
    WeightCourses = {0, 1, 3}
    ActivationCourses = {0, 1, 5}
    RowCounts = {3, 7, 8, 13, 16, 24}
    TokenCounts = {1, 3, 4, 7, 8, 20, 23, 28}
    WideBatch = 20
SPECIFICATION Spec
INVARIANTS GgufIsSafe ArtifactIsWhole WeightsArrive PrefillIsDecode AttentionIsCausal
INVARIANTS PackedDotIsDot ReadoutsAgree ConstraintIsExact TextIsWhole
CHECK_DEADLOCK FALSE

\* Each program alone with the other clients of the store.
SPECIFICATION LiveSpec
CONSTANTS
    a = a
    b = b
    c = c
    k1 = k1
    k2 = k2
    b1 = b1
    b2 = b2
    Ids = {a, b, c}
    Keys = {k1, k2}
    PkOf <- MCPkOf
    UserTexts = {user}
    NoRec = NoRec
    Broken = Broken
    LegacyFiles <- MCLegacyFiles
    BatchSize = 2
    MaxFaults = 2
    NoId = NoId
    Blank = Blank
    BadLine = BadLine
    OthersText = OthersText
    NoItem = NoItem
    Sources <- MCSources
    MaxRuns = 2
    MaxBreaks = 2
    Memories = {1, 2, 3}
    Bodies = {b1, b2}
    Gone = Gone
    UpdatedAt <- MCUpdatedAt
    ListLimit = 3
    Windows <- MCWindows
    BodyLength <- MCBodyLength
    MaxScore = 2
    Weights <- MCWeights
    AskedLimits = {0, 2, 5}
    AskedChars = {0, 5, 99}
    DefaultLimit = 3
    MaxLimit = 3
    DefaultChars = 9
    MaxChars = 9
    MaxMishaps = 1
INVARIANTS ToolsTypeOK MigratedWhole ImportedWhole SelectionVisible PageFull WithinBudget FairShare BetterRanksFirst HooksLive UninstallLeavesNothing
PROPERTIES ClientRecordsStand OpensAgain OthersHooksKept

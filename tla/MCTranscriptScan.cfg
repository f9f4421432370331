\* One opencode session and one file; a shutdown and a fault.
SPECIFICATION LiveSpec
CONSTANTS
    NumRoots = 2
    ExportRoots = {1}
    Sessions = {1, 2}
    RootOf <- MCRootOf
    MaxAttempts = 2
    MaxVersion = 2
    MaxWrites <- MCMaxWrites
    MaxStops = 1
    MaxFaults = 1
    NoFp = NoFp
    NoSession = NoSession
INVARIANTS TypeOK ProcessedIsWhole QuarantineEarned DigestedOnce
PROPERTIES LastStateDigested

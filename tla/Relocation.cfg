SPECIFICATION RelocationSpec
CONSTANTS
    Movers = {p1, p2}
    MaxTries = 3
    MaxTrouble = 2
    MaxGen = 2
    MaxRev = 2
    MaxSaves = 2
    MaxCrashes = 2
    MaxFacts = 2
    MaxAttempts = 2
    MaxFailures = 1
INVARIANTS
    NothingLost
    LayoutCommitsWhole
    ImportIsWhole
    MarkerMeansCopied
CHECK_DEADLOCK FALSE

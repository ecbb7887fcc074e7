SPECIFICATION FairSpec
CONSTANTS
    TileCount = 4
    MaxAttempts = 2
    Setups <- MCSetups
INVARIANTS
    TypeOK
    FuturesInBounds
    EveryTileReportedOnce
    OkIsComplete
    AsTheRunnerAssumes
PROPERTY StepEnds

SPECIFICATION FairSpec
CONSTANTS
    Names = {1, 2, 3, 4}
    Plans <- MCPlans
    Runners <- MCRunners
    Tiled = {3}
    MaxAttempts = 2
INVARIANTS
    TypeOK
    AtMostOneSuccess
    DependenciesFirst
    ReportIsJustified
    StuckOnlyAfterFailure
    ReportIsComplete
PROPERTIES
    ExecutesDag
    Terminates

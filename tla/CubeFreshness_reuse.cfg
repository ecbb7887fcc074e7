SPECIFICATION Spec
CONSTANTS
    None = None
    Vars = {"s", "t", "x", "x2", "y", "z", "w"}
    Producers = {1, 2, 3, 4}
    Requires <- MCRequires
    Outputs <- MCOutputs
    After <- MCAfter
    Tiled = {}
    Crashes = FALSE
INVARIANTS
    TypeOK
    ReportedIsFresh
PROPERTY NoNeedlessRun

SPECIFICATION Spec
CONSTANTS
    None = None
    Vars = {"s", "t", "x", "x2", "y"}
    Producers = {1, 2}
    Requires <- MCRequires2
    Outputs <- MCOutputs2
    After <- MCAfter2
    Tiled = {2}
    Crashes = FALSE
INVARIANT SkippedIsComplete

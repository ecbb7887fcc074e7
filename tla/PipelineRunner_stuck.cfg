SPECIFICATION Spec
CONSTANTS
    Names = {1, 2, 3, 4}
    Plans <- MCPlain
    Runners <- MCInLine
    Tiled = {3}
    MaxAttempts = 2
INVARIANT RaisesOnlyOnBadPlan

SPECIFICATION Spec
CONSTANTS
    Horizon = 8
    HourTicks = 2
    DayTicks = 4
    Setups <- MCDays
INVARIANT WindowServed

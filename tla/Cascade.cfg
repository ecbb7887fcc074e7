SPECIFICATION Spec
CONSTANTS
    WrfWidth = 2
    Fmr = 2
    IgnitionTimes <- MCIgnitionTimes
    Spread = 30
    Reaches <- MCReaches
    Unignited = 99
    MaxTries = 2
    WrfSetups <- MCWrfSetups
    WpsHorizon = 11
    MonthDays = 2
    Places = {"p", "q"}
    WpsSetups <- MCWpsSetups
    Builds = {"a", "b"}
    NoBuild = "-"
    BootSetups <- MCBootSetups
    Names = {"a", "b", "c"}
    Variables = {"x", "y", "z", "w"}
    NoName = "-"
    PlanSetups <- MCPlanSetups
    Scenarios <- MCScenarios
    NeedVars = {"w", "d", "f"}
    Sources = {"p", "q", "r"}
    DataSetups <- MCDataSetups
    JobSetups <- MCJobSetups
    CascadeSetups <- MCCascadeSetups
    WindDays = 3
    DefaultPulse = 1
INVARIANTS
    ChainTypeOK
    WrfStepIsSound
    WpsIsSound
    InstallIsSound
    PlanIsSound
    ChainIsLayered
    NestsAreSound
    NeedsAreServed
    WaitReturnsTheEnd
    CascadeIsSound
PROPERTY
    DryRunLeavesAll
CHECK_DEADLOCK FALSE

SPECIFICATION Spec
CONSTANTS
    CacheProcs = {"p", "q"}
    CacheKeys = {"a", "b", "c"}
    CacheBytes <- MCBytes
    CacheSetups <- MCCacheSetups
    RunConfigs = {"c", "d"}
    RunSteps = 5
    RunEvery = 2
    RunSetups <- MCRunSetups
    SnapVars = {"u", "v"}
    SnapFiles <- MCSnapFiles
    SnapVersions <- MCVersions
    SnapSetups <- MCSnapSetups
    Engines = {"d", "e"}
    SchemaMax = 4
    SchemaSetups <- MCSchemaSetups
INVARIANTS
    FilesTypeOK
    
    RunsResumeExactly
    SnapshotsAreSound
    StampIsTheLayout
PROPERTIES
    EvictsOldestWhenFull
    NeverDowngraded
CHECK_DEADLOCK FALSE

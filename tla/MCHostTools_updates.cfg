CONSTANTS
    script = script
    path = path
    timer = timer
    v1 = v1
    v2 = v2
    v3 = v3
    Files <- TheFiles
    Contents = {"a", "b"}
    Versions = {v1, v2, v3}
    Release <- TheReleases
    ToEnable <- Units
    BuildEnables = {path}
    MaxUpdates = 2
    MaxCuts = 2
    None = None
    Half = Half
SPECIFICATION FairSpec
INVARIANTS
    TypeOK
    Applied
PROPERTIES
    CatchesUp
CHECK_DEADLOCK FALSE

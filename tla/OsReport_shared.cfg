CONSTANTS
    Hourly = hourly
    Others = {patched}
    Files = {f1, f2, f3}
    DiskFull = TRUE
    MaxFacts = 2
    MaxOthers = 1
    MaxBoots = 1
    None = None
    Empty = Empty
    Mixed = Mixed
SPECIFICATION FairSpec
INVARIANTS
    StatusWhole
PROPERTIES
    ArgusHears
    CopyHeals
CHECK_DEADLOCK FALSE

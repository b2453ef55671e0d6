CONSTANTS
    Jobs = {j1, j2}
    Asked = {"scan", "diag"}
    Pids = {p1, p2}
    StaleAfter <- One
    MaxRun <- One
    DiskFull = TRUE
    MaxStops = 1
    None = None
SPECIFICATION FairSpec
INVARIANTS
    Serial
    OwnJob
PROPERTIES
    JobsRun
CHECK_DEADLOCK FALSE

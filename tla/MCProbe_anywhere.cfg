CONSTANTS
    Keys = {k1, k2, k3}
    Names = {n1}
    CAIds = {a1, a2}
    OurCA = a1
    Hosts = {h1, h2}
    Creds = {c1}
    Tokens = {t1}
    None = None
    Junk = Junk
    Life = 2
    Margin = 1
    Replies <- AllReplies
    DiskFull = TRUE
    StopAt <- NotSwapping
    MaxStops = 1
    MaxNow = 2
SYMMETRY Symmetry
SPECIFICATION Spec
INVARIANTS
    RunsWhatIsSaved
CHECK_DEADLOCK FALSE

CONSTANTS
    Keys = {k1, k2, k3}
    Names = {n1}
    CAIds = {a1, a2}
    OurCA = a1
    Hosts = {h1, h2}
    Creds = {c1}
    Tokens = {t1, t2}
    None = None
    Junk = Junk
    Life = 2
    Margin = 1
    Replies = {"full", "noCert", "badName"}
    DiskFull = FALSE
    StopAt <- SwapCut
    MaxStops = 0
    MaxNow = 3
SYMMETRY Symmetry
SPECIFICATION Spec
INVARIANTS
    RestartSafe
CHECK_DEADLOCK FALSE

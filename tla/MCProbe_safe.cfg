CONSTANTS
    Keys = {k1, k2, k3}
    Names = {n1, n2}
    CAIds = {a1, a2}
    OurCA = a1
    Hosts = {h1}
    Creds = {c1}
    Tokens = {t1, t2}
    None = None
    Junk = Junk
    Life = 2
    Margin = 1
    Replies = {"full", "noCert", "badName"}
    DiskFull = FALSE
    StopAt <- SafeSteps
    MaxStops = 1
    MaxNow = 2
SYMMETRY Symmetry
SPECIFICATION Spec
INVARIANTS
    RestartSafe
    NeverStranded
    RunsAsItself
PROPERTIES
    SameTrustAnchor
    RestartsOnNewPair
    KeepsContract
CHECK_DEADLOCK FALSE

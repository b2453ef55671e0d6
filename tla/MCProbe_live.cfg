CONSTANTS
    Keys = {k1, k2}
    Names = {n1}
    CAIds = {a1, a2}
    OurCA = a1
    Hosts = {h1}
    Creds = {c1}
    Tokens = {t1}
    None = None
    Junk = Junk
    Life = 3
    Margin = 1
    Replies = {"full", "noCert", "badName"}
    DiskFull = FALSE
    StopAt <- SafeSteps
    MaxStops = 1
    MaxNow = 3
SPECIFICATION FairSpec
PROPERTIES
    ComesBack
    CertificateRenewed
CHECK_DEADLOCK FALSE

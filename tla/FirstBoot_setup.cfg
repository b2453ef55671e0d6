CONSTANTS
    Tabs = {t1, t2}
    Codes = {c1, c2}
    Passwords = {p1, p2}
    Good = Good
    Bad = Bad
    CODE_MAX_FAILURES = 1
    MaxCuts = 1
    None = None
    Empty = Empty
SPECIFICATION FairSpec
INVARIANTS
    TypeOK
    KnownPassword
    BannerTells
    PicksUpRetry
PROPERTIES
    PasswordReported
CHECK_DEADLOCK FALSE

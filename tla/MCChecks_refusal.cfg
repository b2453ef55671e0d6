CONSTANTS
    None = None
    c1 = c1
    Urls = {u1}
    Lists <- TheLists
    MAX_REDIRECTS = 1
    PORTS = 2
    TCP_TIMEOUT = 2
    MAX_ADDRESSES = 3
    Streams = {s1, s2}
    SHARE = 2
    SECONDS = 2
    WARMUP = 2
    MIN_WINDOW = 1
    PATIENCE = 1
    Polls = {p1, p2}
    Names = {master}
    Members = {master}
    Presented = {c1, c2}
    MaxChanges = 1
    TARGETS = 2
    WORKERS = 2
    CONTROLLERS = 2
    Addresses = {1, 2, 3}
    MACs = {"m1", "m2"}
    Inventories <- TheInventories
    HOST = 2
    CONTROLLER = 2
    POST = 1
    SCAN_DEADLINE = 1
    ENRICH_BUDGET = 1
    WAIT = 1
    COUNT = 3
    MAX_HOPS = 4
    Types <- BothTypes
    Values = {v1}
    RESOLVE = 1
    PING = 2
    HOP = 2
    EXCHANGE = 1
    SYSTEM = 1
    POST_TIMEOUT = 3
    GAP = 1
    THROTTLE = 1
    TRACE_DEADLINE = 5
    POST_WAIT = 1
SPECIFICATION Spec
INVARIANTS
    RefusalIsSaid
CHECK_DEADLOCK FALSE

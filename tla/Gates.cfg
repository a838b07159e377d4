SPECIFICATION Spec
CONSTANTS
    Addrs = {ip1, ip2}
    Users = {alice, bob}
    FreeFails = 2
    MaxBackoff = 2
    Window = 2
    RateMax = 2
    FailsLimit = 1
    HitsLimit = 0
    Tokens = {t1, t2}
    Bogus = Bogus
    Clients = {c1, c2}
    Searches = {s1, s2}
    Queries = {q1}
    PlaceIds = {p1}
    DailyCap = 1
    DayLength = 2
    CacheTtl = 1
    CacheCap = 1
    MaxTime = 3
    MaxRequests = 4
    MaxFaults = 1
SYMMETRY Symmetry
INVARIANTS TypeOK VerdictsAreHonest CeilingsHold
CHECK_DEADLOCK FALSE

SPECIFICATION FairSpec
CONSTANTS
    Procs = {p1}
    Threads = {t1, t2}
    Keys = {k1}
    ConfigKey = cfg
    NoKey = nokey
    RouteScopes = {"read", "admin"}
    KeyScopes <- MCKeyScopes
    Ttl = 1
    CacheMax = 1
    MaxTime = 2
    MaxResets = 1
    MaxOutages = 1
INVARIANT RevocationBounded
INVARIANT ActiveKeyAccepted
INVARIANT OneInstance
PROPERTY RequestEnds

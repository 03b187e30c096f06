\* One handler and the refresher on one key, long enough for a refresh and an eviction.
CONSTANTS
    t1 = t1
    Keys = {k1}
    Teams = {t1}
    Requests = {r1}
    Admins = {a1}
    Rpms = {0}
    Balances = {1}
    Expiries = {NoExpiry}
    Grants = {g1}
    NoExpiry = NoExpiry
    NoRow = NoRow
    NotCached = NotCached
    NoKey = NoKey
    SyncTTL = 1
    IdleTTL = 2
    MaxClock = 4
    LastWrite = 0
    TeamOf <- OneTeam
SPECIFICATION IdleSpec
INVARIANT EvictedWasIdle

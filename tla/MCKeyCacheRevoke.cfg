\* One handler, one admin and the refresher on a key whose balance and expiry change, under the
\* fairness of FairSpec.
CONSTANTS
    t1 = t1
    Keys = {k1}
    Teams = {t1}
    Requests = {r1}
    Admins = {a1}
    Rpms = {0}
    Balances = {0, 1}
    Expiries = {NoExpiry, 1}
    Grants = {g1}
    NoExpiry = NoExpiry
    NoRow = NoRow
    NotCached = NotCached
    NoKey = NoKey
    SyncTTL = 1
    IdleTTL = 2
    MaxClock = 3
    LastWrite = 0
    TeamOf <- OneTeam
SPECIFICATION FairSpec
INVARIANTS AdmittedIsValid BoundedStaleness IInv
PROPERTY RevokedIsForgotten

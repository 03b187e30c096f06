\* Two requests on two keys, channels of one element, and one flusher of each kind.
CONSTANTS
    Requests = {r1, r2}
    Keys = {k1, k2}
    Amounts = {1}
    NoSpend = NoSpend
    NoKey = NoKey
    NoChan = NoChan
    LogCap = 1
    KeyCap = 1
    LogFlushers = {f1}
    KeyFlushers = {g1}
SPECIFICATION FairSpec
PROPERTIES HandlersFinish LogSettles ChargeSettles

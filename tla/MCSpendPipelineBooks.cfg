\* Two requests, one of which may cost nothing, on one key or two; two flushers of each kind.
CONSTANTS
    Requests = {r1, r2}
    Keys = {k1, k2}
    Amounts = {0, 1}
    NoSpend = NoSpend
    NoKey = NoKey
    NoChan = NoChan
    LogCap = 1
    KeyCap = 1
    LogFlushers = {f1, f2}
    KeyFlushers = {g1, g2}
SYMMETRY Symmetry
SPECIFICATION Spec
INVARIANTS IInv ChargesOwnKey
PROPERTIES LogIsLedger ChargeIsLedger LossNeedsFailure

\* Two requests, one of them for a stream, on three upstreams, which are tried once, four times (of
\* six asked for) and twice, under the fairness of their handlers.
CONSTANTS
    m1 = m1
    m2 = m2
    m3 = m3
    Requests = {r1, r2}
    Streams = {r1}
    Anthropic = {m2}
    Answers <- OneOfEach
    Price <- TenfoldPrice
    NoSpend = NoSpend
    Counts = {0, 1, 2, 3}
    Group <- ThreeModels
    Word = 3
    RetryTimes <- ThreeRetries
    Latencies = {1}
SPECIFICATION FairSpec
INVARIANTS IInv OneAnswer ExhaustionIsTotal BilledOnce StreamedAsWhole
PROPERTY EveryRequestAnswered
CHECK_DEADLOCK FALSE

\* Three requests on two upstreams; a failed attempt may take long.
CONSTANTS
    m1 = m1
    m2 = m2
    m3 = m3
    Requests = {r1, r2, r3}
    Streams = {}
    Anthropic = {}
    Answers <- OnlySilent
    Price <- TenfoldPrice
    NoSpend = NoSpend
    Counts = {0}
    Group <- TwoModels
    Word = 2
    RetryTimes <- FewRetries
    Latencies = {1, 4, 30}
SPECIFICATION FairSpec
PROPERTY PrefersLowerSuccess
CHECK_DEADLOCK FALSE

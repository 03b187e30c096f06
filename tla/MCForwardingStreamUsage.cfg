\* One request whose stream may break off after its usage.
CONSTANTS
    m1 = m1
    m2 = m2
    m3 = m3
    Requests = {r1}
    Streams = {r1}
    Anthropic = {m2}
    Answers <- OneOfEach
    Price <- TenfoldPrice
    NoSpend = NoSpend
    Counts = {0}
    Group <- TwoModels
    Word = 2
    RetryTimes <- FewRetries
    Latencies = {1, 5}
SPECIFICATION Spec
INVARIANT StreamUsageBilled
CHECK_DEADLOCK FALSE

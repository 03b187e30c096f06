\* Two handlers on three upstreams, under each strategy and each of four weightings.
CONSTANTS
    m1 = m1
    m2 = m2
    m3 = m3
    None = None
    Group <- ThreeModels
    Word = 16
    Handlers = {h1, h2}
    Hashes = {0, 4}
    Weights <- FileWeights
    Latencies = {0, 3}
SPECIFICATION Spec
INVARIANTS IInv FairRounds LatencyWithinObserved
PROPERTY FirstChoiceWorks

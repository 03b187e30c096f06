\* Two replicas that start with any of five files, up to four times in all.
CONSTANTS
    g1 = g1
    g2 = g2
    e1 = e1
    Replicas = {r1, r2}
    Groups = {g1, g2}
    Endpoints = {e1}
    Files <- FilesInUse
    MaxSyncs = 4
SPECIFICATION FairSpec
INVARIANTS IInv SameFileNoDeadlock
PROPERTIES CommitEnablesFile CommitMirrorsFile SyncsEnd
CHECK_DEADLOCK FALSE

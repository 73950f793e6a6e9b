\* Liveness of one worker process under crashes and failing Redis calls.
SPECIFICATION FairSpec
CONSTANTS
    Messages = {m1, m2}
    Anonymous = {m2}
    Workers = {w1}
    DedupTTL = 2
    ProcessedTTL = 2
    MessageTTL = 1
    RetrySetting = 2
    MaxTime = 0
    MaxCopies = 2
    MaxFaults = 1
    MaxCrashes = 1
PROPERTIES
    EventuallySettledOrStranded
    RestartSettlesAll
CHECK_DEADLOCK FALSE

\* What config.py says of the processed marker, against the worker's code.
SPECIFICATION FairSpec
CONSTANTS
    Messages = {m1}
    Anonymous = {}
    Workers = {w1}
    DedupTTL = 2
    ProcessedTTL = 2
    MessageTTL = 1
    RetrySetting = 2
    MaxTime = 1
    MaxCopies = 1
    MaxFaults = 0
    MaxCrashes = 1
PROPERTIES
    RecoveredAnsweredNotRerun
CHECK_DEADLOCK FALSE

\* One worker process, as wsgi.ini deploys it.
SPECIFICATION Spec
CONSTANTS
    Messages = {m1, m2}
    Anonymous = {m2}
    Workers = {w1}
    DedupTTL = 2
    ProcessedTTL = 2
    MessageTTL = 1
    RetrySetting = 2
    MaxTime = 3
    MaxCopies = 2
    MaxFaults = 1
    MaxCrashes = 1
INVARIANTS
    AcceptedNotLost
    OneFreshCopy
    MarkerMeansAnswered
    QueuedOnce
    AttemptBudget
PROPERTIES
    MarkedNeverRerun
    FirstComeFirstServed
    ImplementsLedger
CHECK_DEADLOCK FALSE

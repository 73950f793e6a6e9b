\* service.py:387 on a failing store, against the code.
SPECIFICATION PipelineSpec
CONSTANTS
    Messages = {m1}
    Anonymous = {}
    Workers = {w1}
    DedupTTL = 2
    ProcessedTTL = 2
    MessageTTL = 0
    RetrySetting = 2
    MaxTime = 0
    MaxCopies = 1
    MaxFaults = 0
    MaxCrashes = 1
    EmptyId = EmptyId
    NoIdField = NoIdField
    Quiet = Quiet
    channel1 = channel1
    channel2 = channel2
    Conversations = {channel1}
    ConversationOf <- OneChannel
    Backends = {"mongo"}
    HistoryLimit = 2
    MaxUsers = 1
    MaxParts = 2
PROPERTIES
    RecordFailureNotRaised
CHECK_DEADLOCK FALSE

\* One worker with each of the three stores; see Instance.
SPECIFICATION PipelineSpec
CONSTANTS
    Messages = {m1, m2, m3}
    Anonymous = {}
    Workers = {w1}
    DedupTTL = 2
    ProcessedTTL = 2
    MessageTTL = 0
    RetrySetting = 2
    MaxTime = 0
    MaxCopies = 3
    MaxFaults = 0
    MaxCrashes = 1
    EmptyId = EmptyId
    NoIdField = NoIdField
    Quiet = m3
    channel1 = channel1
    channel2 = channel2
    Conversations = {channel1, channel2}
    ConversationOf <- TwoChannels
    Backends = {"mongo", "local", "memory"}
    HistoryLimit = 2
    MaxUsers = 1
    MaxParts = 2
SYMMETRY
    Symmetry
CONSTRAINT
    Instance
INVARIANTS
    UserStoredOnce
    HistoryTruthful
    AnsweredIsRecorded
    OmittedIsQuestion
PROPERTIES
    ImplementsMessaging
CHECK_DEADLOCK FALSE

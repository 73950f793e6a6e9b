\* One caller (the Cube worker), failures and retries.
SPECIFICATION LiveFlowSpec
CONSTANTS
    Messages = {m1, m2, m3}
    Handoff = {m1, m2}
    Callers = {w1}
    MaxTries = 2
    MaxFailures = 2
    None = None
INVARIANTS
    FlowTypeOK
    OwnReply
    ReplyReadable
PROPERTIES
    EveryCallEnds
    SlotsKept
CHECK_DEADLOCK FALSE

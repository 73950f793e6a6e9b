\* A node fails and the next message arrives.
SPECIFICATION FlowSpec
CONSTANTS
    Messages = {m1, m2}
    Handoff = {m1}
    Callers = {w1}
    MaxTries = 1
    MaxFailures = 1
    None = None
PROPERTIES
    NewInputUnlessInterrupted
CHECK_DEADLOCK FALSE

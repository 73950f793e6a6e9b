\* Two callers on one thread: two tabs of the web chat.
SPECIFICATION FlowSpec
CONSTANTS
    Messages = {m1, m2, m3}
    Handoff = {m1}
    Callers = {w1, w2}
    MaxTries = 1
    MaxFailures = 1
    None = None
SYMMETRY Symmetry
INVARIANTS
    CardsCurrent
    SlotsFromDialogue
CHECK_DEADLOCK FALSE

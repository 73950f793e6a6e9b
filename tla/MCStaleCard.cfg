\* A card, then a translation.
SPECIFICATION FlowSpec
CONSTANTS
    Messages = {m1, m2}
    Handoff = {m1}
    Callers = {w1}
    MaxTries = 1
    MaxFailures = 0
    None = None
INVARIANTS
    TranslationShown
CHECK_DEADLOCK FALSE

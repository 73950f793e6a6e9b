\* An answer of the language model, cut into messages, shown and answered.
SPECIFICATION AnswersSpec
CONSTANTS
    MaxHabits = 3
    MaxCut = 3
    TextKinds = {"fence3", "fence4", "fence3lang", "header", "row", "rule", "ragged", "stub", "raggedstub", "blank", "plain"}
    MaxText = 5
    Limits = {2, 3}
    MaxReply = 3
    Replies <- MCReplySet
    Inputs = {"x"}
    Words = {"hi"}
    MaxPosts = 2
INVARIANTS
    WellFormedVerbatim
    RepairsRestore
    NothingInvented
    LinesKept
    PartsFit
    PartsInOrder
    AnswersArrive
    PressCounted
CHECK_DEADLOCK FALSE

CONSTANTS
    Ids = {"a", "b"}
    Texts = {"a", " a ", "b"}
    Strip <- MCStrip
    Files <- MCFiles
    None = None
SPECIFICATION Spec
INVARIANTS TypeOK ConfigIsSettledFirst ExitTellsTheOutcome StoreIsClosed
CHECK_DEADLOCK FALSE

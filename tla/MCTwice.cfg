CONSTANTS
    Ids = {"a", "b"}
    Texts = {"a", " a ", "b"}
    Strip <- MCStrip
    Files <- MCFiles
    None = None
SPECIFICATION Spec
INVARIANT NoProviderTwice
CHECK_DEADLOCK FALSE

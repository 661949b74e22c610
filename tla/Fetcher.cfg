CONSTANTS
    MaxRetries = 3
    MaxDownloadBytes = 4
    MaxChunk = 3
    MaxFile = 5
    None = None
SPECIFICATION FairSpec
INVARIANTS TypeOK BytesAreOneResponse DownloadIsCapped RetriesFitTheFailure
PROPERTIES EndsUnlessHeld OnlyIdleReadsAreUnbounded
CHECK_DEADLOCK FALSE

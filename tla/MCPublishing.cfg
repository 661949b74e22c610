CONSTANTS
    Latest = 2
    Index = Index
    Manifest = Manifest
    None = None
    Torn = Torn
    MaxBuilds = 3
    MaxDeaths = 2
SPECIFICATION FairSpec
INVARIANTS TypeOK ManifestIsPublishedLast OneBuildPerCrawl QuietCrawlSucceeds
PROPERTIES RegeneratingKeepsTheKey CatchUp
CHECK_DEADLOCK FALSE

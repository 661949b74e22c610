CONSTANTS
    Providers = {"acme", "globex"}
    Items = {"a", "b", "c"}
    Payloads = {"x", "y"}
    Digests = {"a1", "a2", "a3", "g1", "g2", "junk"}
    None = None
    Procs = {c1}
    Config <- MCFlakyFirst
    Keys = {"k"}
    KeyOf <- MCKeyOf
    Content <- MCContent
    Files <- MCFiles
    Publications <- MCPublications
    Inventory <- MCInventory
    Flaky = {"globex"}
    MaxFaults = 3
    Unhandled = {}
    SqlIntMax = 9
SPECIFICATION FairSpec
INVARIANTS EveryProviderAttempted SuccessMeansCaughtUp StatusAgreesWithReport
PROPERTIES CatchUp VisitsAreFinite

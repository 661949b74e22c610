CONSTANTS
    Providers = {"acme", "globex"}
    Items = {"a", "b", "c"}
    Payloads = {"x", "y"}
    Digests = {"a1", "a2", "a3", "g1", "g2", "junk"}
    None = None
    Procs = {c1}
    Config <- MCConfig
    Keys = {"k"}
    KeyOf <- MCKeyOf
    Content <- MCContent
    Files <- MCFiles
    Publications <- MCCountedPublications
    Inventory <- MCInventory
    Flaky = {}
    MaxFaults = 0
    Unhandled = {}
    SqlIntMax = 9
SPECIFICATION Spec
INVARIANTS CurrentIndexIsAcceptable

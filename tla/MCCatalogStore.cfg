CONSTANTS
    Providers = {"acme"}
    Items = {"a", "b"}
    Payloads = {"x", "y"}
    Digests = {"d1", "d2"}
    None = None
    Connections = {c1, c2}
    Segments <- MCSegments
    IndexVersions = {1, 4}
    SqlIntMax = 3
SYMMETRY Symmetry
SPECIFICATION Spec
INVARIANTS TypeOK MarkerIsNewestAudit RowsAreAudited OneAuditPerVersion Isolation
PROPERTIES Atomicity MarkerNeverRewinds

CONSTANTS
    h1 = h1
    h2 = h2
    c1 = c1
    c2 = c2
    r1 = r1
    NoHead = NoHead
    Hosts = {h1, h2}
    Targets = {h1, h2}
    Contents = {c1, c2}
    Runs = {r1}
    MaxCommits = 3
SYMMETRY Interchangeable
SPECIFICATION PublicationSpec
INVARIANTS
    TrustShared
    ReceiptsHappened
    AbortedOrReversed
    InterruptedIsPending
PROPERTIES
    ImplementsAuthority

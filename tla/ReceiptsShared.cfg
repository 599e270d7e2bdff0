CONSTANTS
    w1 = w1
    w2 = w2
    w3 = w3
    s1 = s1
    s2 = s2
    s3 = s3
    done = done
    Succeeded = done
    back = back
    RollingBack = back
    Executors = {w1, w2}
    ExecutionLock = FALSE
    None = None
    Writers = {w1, w2, w3}
    Stores = {s1}
    StoreOf <- SharedStore
    a = a
    b = b
    Values = {a, b, done, back}
    MaxLen = 4
    MaxStops = 2
SPECIFICATION Spec
CHECK_DEADLOCK FALSE
INVARIANTS
    TypeOK
    SnapshotsFormChain
    AckedIsDurable
    SessionIsCurrent
PROPERTY ImplementsLog

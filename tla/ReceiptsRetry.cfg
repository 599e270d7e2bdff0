CONSTANTS
    w1 = w1
    w2 = w2
    w3 = w3
    s1 = s1
    s2 = s2
    s3 = s3
    done = done
    Succeeded = done
    back = back
    RollingBack = back
    Executors = {w1}
    ExecutionLock = TRUE
    None = None
    Writers = {w1}
    Stores = {s1}
    StoreOf <- SharedStore
    a = a
    b = b
    Values = {a, done, back}
    MaxLen = 2
    MaxStops = 1
SPECIFICATION FairSpec
CHECK_DEADLOCK FALSE
PROPERTY RunCompletes

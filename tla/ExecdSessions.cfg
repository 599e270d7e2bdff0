CONSTANTS
    j1 = j1
    r1 = r1
    r2 = r2
    NoJob = NoJob
    Jobs = {j1}
    Sessions = {r1, r2}
    MaxAttempts = 3
SPECIFICATION LiveSpec
INVARIANTS
    TypeOK
    NoSharedFence
    ReceiptMatches
PROPERTIES
    FencedWrites
    ImplementsContract
    WorkerReturns

CONSTANTS
    j1 = j1
    r1 = r1
    r2 = r2
    NoJob = NoJob
    Jobs = {j1}
    Sessions = {}
    MaxAttempts = 2
SPECIFICATION Spec
INVARIANTS
    StartupCommits

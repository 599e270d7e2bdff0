CONSTANTS
    N = 3
    Forward <- FilesForward
    Create <- FilesCreate
    MaxCrashes = 2
    MaxFaults = 1
SPECIFICATION Spec
INVARIANTS
    RolledBackRestores
CHECK_DEADLOCK FALSE

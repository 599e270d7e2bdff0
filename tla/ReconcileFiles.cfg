CONSTANTS
    N = 3
    Forward <- FilesForward
    Create <- FilesCreate
    MaxCrashes = 3
    MaxFaults = 2
SPECIFICATION Spec
INVARIANTS
    UndoneMeansRestored
    ReverseOrder
CHECK_DEADLOCK FALSE

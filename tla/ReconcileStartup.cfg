CONSTANTS
    N = 4
    Forward <- MixedForward
    Create <- MixedCreate
    MaxCrashes = 1
    MaxFaults = 0
SPECIFICATION FairEngine
PROPERTIES
    StartupConverges
CHECK_DEADLOCK FALSE

CONSTANTS
    N = 4
    Forward <- MixedForward
    Create <- MixedCreate
    MaxCrashes = 2
    MaxFaults = 2
SPECIFICATION FairRecovery
INVARIANTS
    TypeOK
    NoRollbackPastBarrier
    MutationsAreCheckpointed
    CommitMeansApplied
    EvidenceBeforeRecovered
    JournalAcceptsEngine
PROPERTIES
    ImplementsContract
    RunSettles
CHECK_DEADLOCK FALSE

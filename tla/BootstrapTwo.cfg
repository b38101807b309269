SPECIFICATION FairSpec
CONSTANTS
    N = 2
    MaxUid = 1
    MaxUserOps = 1
    MaxFaults = 1
    MaxTotal = 1
    Assumed = {"StatusFirst", "CaughtUp", "JobsCollected", "MarkersCollected", "RestoreFirst"}
INVARIANTS
    TypeOK
    NoFormatJobBesideReplicas
    BootstrappedMeansFormatted
PROPERTIES
    DataSafe
    BootstrapSettles
CHECK_DEADLOCK FALSE

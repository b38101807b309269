SPECIFICATION Spec
CONSTANTS
    N = 1
    MaxUid = 2
    MaxUserOps = 2
    MaxFaults = 1
    MaxTotal = 3
    Assumed = {"StatusFirst", "CaughtUp", "MarkersCollected", "RestoreFirst"}
INVARIANTS
    BootstrappedMeansFormatted
CHECK_DEADLOCK FALSE

SPECIFICATION Spec
CONSTANTS
    N = 1
    MaxUid = 1
    MaxUserOps = 2
    MaxFaults = 1
    MaxTotal = 3
    Assumed = {"StatusFirst", "JobsCollected", "MarkersCollected", "RestoreFirst"}
INVARIANTS
    GateSound
CHECK_DEADLOCK FALSE

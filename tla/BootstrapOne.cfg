SPECIFICATION Spec
CONSTANTS
    N = 1
    MaxUid = 2
    MaxUserOps = 3
    MaxFaults = 1
    MaxTotal = 4
    Assumed = {"StatusFirst", "CaughtUp", "JobsCollected", "MarkersCollected", "RestoreFirst"}
INVARIANTS
    GateSound
    NoFormatJobBesideReplicas
    BootstrappedMeansFormatted
PROPERTIES
    RefusesForeignPVCs
CHECK_DEADLOCK FALSE

\* One or two replicas that recover by hand, or without asking.
CONSTANTS
    Sizes = {1, 2}
    Policies = {"Automatic", "Manual"}
    MaxUid = 4
    MaxFaults = 2
    Assumed = {"PodsCurrent", "OneLossEach"}
SPECIFICATION FairSpec
INVARIANTS TypeOK
PROPERTIES ApprovedOnly WaitingIsReported ApprovalArrives RecoversAlone LossIsReported
CHECK_DEADLOCK FALSE

\* A pod's name is used again before the operator's cache has caught up.
CONSTANTS
    Sizes = {2}
    Policies = {"Manual"}
    MaxUid = 4
    MaxFaults = 2
    Assumed = {"OneLossEach"}
SPECIFICATION Spec
PROPERTIES ApprovedOnly
CHECK_DEADLOCK FALSE

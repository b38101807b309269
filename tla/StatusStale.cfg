\* Two good specs and one that is not, with a failed call or replica.
CONSTANTS
    Images = {"v1", "v2", "bad"}
    Invalid = {"bad"}
    MaxEdits = 1
    MaxFaults = 1
SPECIFICATION FairSpec
INVARIANTS TypeOK HealthySound HealthKept
PROPERTIES StatusArrives
CHECK_DEADLOCK FALSE

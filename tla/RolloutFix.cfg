\* An unfit template and back, with a fault.
CONSTANTS
    N = 2
    Templates = {"good", "broken", "silent"}
    Broken = {"broken"}
    Silent = {"silent"}
    Faults = {"fail", "run", "evict", "api", "crash"}
    MaxEdits = 1
    MaxFaults = 1
SPECIFICATION FairSpec
INVARIANTS TypeOK
PROPERTIES NeverDeletesUpdated ImageMeansAll FixArrives
CHECK_DEADLOCK FALSE

\* One pod at a time, under every fault but overlapping pods.
CONSTANTS
    Pods = {p}
    ReplicaCount = 2
    MaxFiles = 7
    MaxFaults = 6
    Faults = {"fail", "sync", "kill", "stop", "power", "volume"}
SPECIFICATION FairSpec
INVARIANTS TypeOK NeverLooksReal SurvivesPowerLoss OnlyFaultsFail
PROPERTIES NeverReplaced StopsWhenTold EventuallyServes
CHECK_DEADLOCK FALSE

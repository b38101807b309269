\* A replica or three, 8-bit sizes with 3 GiB = 48 and 1 MiB = 4; every spec
\* at first, edits, deleted objects, failed calls and crashes.
CONSTANTS
    MaxInt = 127
    Overhead = 48
    MiB = 4
    Units = {4}
    Replicas = {1, 3}
    Limits = {50, 54}
    Requests = {64}
    Numbers = {4, 5, 25, 40}
    MaxEdits = 2
    MaxDeletes = 1
    MaxFaults = 1
    MaxTotal = 2
    Assumed = {"NoHugeGrids", "DeletionSeen"}
SPECIFICATION FairSpec
INVARIANTS TypeOK GridFits
PROPERTIES OthersKept RefusalIsReported SettingsFollowed
CHECK_DEADLOCK FALSE

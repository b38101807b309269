\* Two replicas, and one IP more than they need; a new port, Services that are
\* deleted, IPs that others take and give back, failed calls and crashes.
CONSTANTS
    N = 2
    IPs = {a, b, c}
    MaxDeletes = 2
    MaxTaken = 1
    MaxEdits = 1
    MaxFaults = 2
    MaxTotal = 4
    Assumed = {"StatusSeen"}
SPECIFICATION FairSpec
INVARIANTS TypeOK SwitchesInOrder
PROPERTIES AddressesKept LossOfIPIsReported AddressesServed
CHECK_DEADLOCK FALSE

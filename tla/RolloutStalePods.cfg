\* The StatefulSet controller replaces a pod while another one is deleted.
CONSTANTS
    N = 2
    Templates = {"first", "second"}
    Broken = {}
    Silent = {}
    Faults = {"fail"}
    MaxEdits = 1
    MaxFaults = 1
SPECIFICATION Spec
PROPERTIES OneAtATime
CHECK_DEADLOCK FALSE

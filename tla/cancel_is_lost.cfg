CONSTANTS
    NumJobs = 1
    Requests = {r1}
    Limits = {1}
    MaxRequeues = 1
SPECIFICATION Spec
PROPERTIES
    CancelSticks
CHECK_DEADLOCK FALSE

\* Two jobs, and a lease beside one.
CONSTANTS
    NumJobs = 2
    Requests = {r1, r2}
    Limits = {1}
    MaxRequeues = 0
SPECIFICATION MCSpec
PROPERTIES
    WaitingIsServed
    CloseEnds
    PauseSticks
CHECK_DEADLOCK FALSE

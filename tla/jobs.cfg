\* Two jobs, two limits, every request; or one job and its file.
CONSTANTS
    NumJobs = 2
    Requests = {r1, r2}
    Limits = {0, 1}
    MaxRequeues = 2
    MaxRemoved = 1
    MaxTails = 1
SPECIFICATION MCSpec
SYMMETRY RequestSymmetry
CONSTRAINTS
    FewRemovals
    FewTails
    FewRequeues
    OneJobWithFile
INVARIANTS
    IInv
    OneLiveDownload
    FreeSlotIsServed
    SettledIsDurable
PROPERTIES
    NoGrowthAboveLimit
    OldestFirst
    
CHECK_DEADLOCK FALSE

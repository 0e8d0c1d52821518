\* Settings: two requests, which overlap again and again; saves fail and the process
\* restarts.  Stream: a ring of two and a feed of one, with a level filter and any
\* cursor.  Files: two rotated files.
SPECIFICATION MCSpec
CONSTANTS
    q1 = q1
    q2 = q2
    Request <- TwoRequests
    FlagGiven = TRUE
    MaxCommits = 4
    MaxRestarts = 1
    Capacity = 2
    PageLimit = 1
    Buffer = 1
    Filtering = TRUE
    MaxSeq = 4
    MaxSize = 2
    MaxBackups = 2
    Lengths = {1, 3}
    MaxRecord = 6
    MaxFailures = 2
    MaxCrashes = 1
INVARIANTS
    LogIsTold
    FilesAreSound
    IntentReachesFile
PROPERTIES
    ImplementsLog
    LossIsReported
    
    NeverRollsBack
    RequestsEnd
\* Each part ends at its bound.
CHECK_DEADLOCK FALSE

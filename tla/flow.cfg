\* Two readers share a limit that changes twice; runs of a transfer with one request or
\* with several connections take over from one another.
SPECIFICATION MCSpec
CONSTANTS
    Caller = {r1, r2}
    Rates = {0, 1, 3}
    MinBurst = 2
    ReadChunk = 2
    MaxElapsed = 2
    MaxChanges = 2
    NoFile = NoFile
    Size = 3
    Concurrencies = {2, 3}
    Retries = 1
    MaxAttemptsPerRetry = 2
    MaxRuns = 2
INVARIANTS
    
    CapRespected
PROPERTIES
    ResumableBytesAreKept
    NobodyHangs
\* Each part ends at its bound.
CHECK_DEADLOCK FALSE

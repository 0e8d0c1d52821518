SPECIFICATION MCSpec
CONSTANTS
    Versions <- MCVersions
    Files <- MCFiles
    Aliases = {"other"}
    Contents <- MCContents
    Sha <- MCSha
    None = None
    Foreign = Foreign
    MaxInodes = 6
    Jobs <- MCJobs
    JobCommit <- MCJobCommit
    JobFiles <- MCJobFiles
    MaxActive = 1
    MaxStarts = 2
    MaxFaults = 1
    MaxRebuilds = 1
    Selections <- MCSelections
    MaxDeletes = 1
    MaxTouches = 1
    MaxCrashes = 1
    FileSystems <- MCFileSystems
    MaxDisturbances = 1
CONSTRAINT MCFewDisturbances
INVARIANTS
    StoredIsPresent
    RebuildConverges
    DeletedStaysDeleted

    
CHECK_DEADLOCK FALSE

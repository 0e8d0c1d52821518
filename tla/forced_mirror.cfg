\* A download ends at the source before a forced request is planned.
SPECIFICATION MCSpec
CONSTANTS
    Walk <- MCWalk
    Members = {"a", "b"}
    InSub = {"b"}
    Numbers = {1, 2, 3, 4}
    Sizes = {1, 2}
    MaxTouches = 2
    MaxFaults = 1
    Repositories <- MCRepositories
    Files <- MCFiles
    Payloads = {"blob", "other blob"}
    Dir = "dir"
    Link = "link"
    Filters = {"", "r"}
    Present <- MCPresent
    MaxSyncs = 2
    MaxFailures = 1
    MaxUpdates = 1
PROPERTIES
    ForcedSyncRepairs
CHECK_DEADLOCK FALSE

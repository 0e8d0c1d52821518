\* One job beside two deletes and a cache mutation, whose walks overlap.
SPECIFICATION Spec
CONSTANTS
    NumJobs = 1
    Entries = {"q4", "q5"}
    Dir <- OneJobDir
    May <- OneJobMay
    Selections = {{"q4"}, {"q5"}}
    Dirs = {{"q4", "q5"}}
    d1 = d1
    d2 = d2
    Deleters <- TwoDeletes
    Mutators = {"rebuild"}
    Limits = {1}
    MaxRequeues = 1
    MaxStops = 1
    MaxLeases = 2
    MaxProbeFailures = 0
SYMMETRY DeleteSymmetry
INVARIANTS
    LeasesExclude
PROPERTIES
    AdmittedAroundLeases
CHECK_DEADLOCK FALSE

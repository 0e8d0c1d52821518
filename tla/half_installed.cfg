SPECIFICATION MCSpec
CONSTANTS
  Platforms = {"darwin"}
  Versions = {1, 2}
  Dirs = {"app", "state"}
  Root = "/"
  Parent <- MCParent
  MaxFaults = 1
  MaxInterrupts = 1
  MaxKills = 1
  MaxCrashes = 1
  MaxCommands = 1
INVARIANTS
  FailedInstallIsNeverHalf
CHECK_DEADLOCK FALSE

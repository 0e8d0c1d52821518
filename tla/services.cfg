SPECIFICATION MCSpec
CONSTANTS
  Platforms = {"linux", "darwin", "windows"}
  Versions = {1, 2}
  Dirs = {"app", "state"}
  Root = "/"
  Parent <- MCParent
  MaxFaults = 1
  MaxInterrupts = 1
  MaxKills = 1
  MaxCrashes = 1
  MaxCommands = 2
INVARIANTS
  Consistent
  FailedInstallRestores
  CommandsTakeEffect
  
PROPERTIES
  ServiceSettles
CHECK_DEADLOCK FALSE

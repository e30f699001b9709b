SPECIFICATION Spec
CONSTANTS
  Units = {"core", "workers"}
  N = 1
  MaxRelease = 2
  ScriptFrom <- AlwaysFirst
  UnitFrom <- EachRelease
  FilesFrom <- AlwaysFirst
  Rollback = "always"
  Limits = TRUE
  Lossy = FALSE
  Undeletable = FALSE
INVARIANTS RollbackHostRunsIt

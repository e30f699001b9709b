SPECIFICATION Spec
CONSTANTS
  Units = {"core"}
  N = 1
  MaxRelease = 2
  ScriptFrom <- AlwaysFirst
  UnitFrom <- AlwaysFirst
  FilesFrom <- EachRelease
  Rollback = "never"
  Limits = FALSE
  Lossy = FALSE
  Undeletable = FALSE
INVARIANT RunsWhatItDeployed

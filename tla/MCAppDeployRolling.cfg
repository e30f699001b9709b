SPECIFICATION Spec
CONSTANTS
  Units = {"core"}
  N = 2
  MaxRelease = 2
  ScriptFrom <- AlwaysFirst
  UnitFrom <- AlwaysFirst
  FilesFrom <- EachRelease
  Rollback = "first"
  Limits = FALSE
  Lossy = TRUE
  Undeletable = TRUE
INVARIANTS TypeOK RollbackRestores SchemaFirst EarlierHostsServe

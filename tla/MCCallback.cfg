SPECIFICATION Spec
CONSTANTS
  Hosts = {h1, h2}
  Tasks = {"copy", "debug", "include"}
  Includes = {"include"}
  Debugs = {"debug"}
  MaxStarts = 4
  MaxItems = 2
SYMMETRY AnyHost
CHECK_DEADLOCK FALSE
INVARIANTS CallbackTypeOK NothingGlued LiveLineWhileRunning DiffsBelongToARun
PROPERTIES DiffsFollowTheirLine

SPECIFICATION FairSpec
CONSTANTS
  Meta <- Messages
  Machines = {"m1", "m2"}
  Services <- AllServices
  Layouts <- MessagesLayouts
  Requests <- AllRequests
  MaxCommands = 1
  MaxFalls = 1
CHECK_DEADLOCK FALSE
INVARIANTS RemoteTypeOK TargetsAreTheHosts Rolling OkMeansBack UserSettled
PROPERTIES ResetStartsClean RestartEnds

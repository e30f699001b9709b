SPECIFICATION Spec
CONSTANTS
  Core = "meet"
  Providers = {"livekit"}
  Secrets = {"key", "newkey", "api"}
  Kind <- MeetKind
  Holder <- MeetHolder
  Adopting = {}
  Newer = {"newkey"}
  MaxMints = 2
  TornWrites = TRUE
INVARIANTS
  RerunRepairsVault

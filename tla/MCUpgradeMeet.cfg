SPECIFICATION FairSpec
CONSTANTS
  MaxVersion = 3
  Core = "core"
  Workers = {}
  Providers = {"livekit", "egress"}
  Legacy = {}
  BundledWith <- MeetBundle
  RelaySkips = {}
  Flags <- MeetFlags
  Baseline <- NoBaseline
  OlderCli = FALSE
INVARIANTS
  TypeOK
  StampsAreEarned
  PlaysReplayedConfig
  OfferStaysQuiet
  UpgradeClearsNeeds
PROPERTY CommandEnds

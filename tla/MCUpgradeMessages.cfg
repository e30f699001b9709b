SPECIFICATION Spec
CONSTANTS
  MaxVersion = 2
  Core = "core"
  Workers = {"workers"}
  Providers = {"mpa", "socks"}
  Legacy = {"mta-in"}
  BundledWith <- NoBundle
  RelaySkips = {"socks"}
  Flags <- MessagesFlags
  Baseline <- RaisedBaseline
  OlderCli = TRUE
INVARIANTS
  FlagClearedOnlyByReplay
  ManagedHasFiles
PROPERTIES
  PinNeverMovesBack

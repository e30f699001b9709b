SPECIFICATION Spec
CONSTANTS
  MaxVersion = 3
  Core = "core"
  Workers = {}
  Providers = {"collabora"}
  Legacy = {}
  BundledWith <- NoBundle
  RelaySkips = {}
  Flags <- DriveFlags
  Baseline <- NoBaseline
  OlderCli = FALSE
INVARIANT DeployBlocksAtThePin

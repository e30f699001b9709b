SPECIFICATION Spec
CONSTANTS
  Core = "messages"
  Providers = {"pymta", "yprovider"}
  Secrets = {"salt", "mda", "proxy", "collab", "api"}
  Kind <- EveryKind
  Holder <- EveryHolder
  Adopting = {"collab"}
  Newer = {"salt"}
  MaxMints = 2
  TornWrites = FALSE
INVARIANTS
  TypeOK
  OwnedCopiesAgree
  RunAligns
  ReferencesResolve
PROPERTIES
  SecretsNeverRotate

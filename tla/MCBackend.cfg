SPECIFICATION Spec
CONSTANTS
  NoKey = "-"
  Sites = {prod, dev}
  Clones = {alice, bob}
  SecretKeys <- TwoReleases
  PlainKeys = {"HOST"}
  OwnKeys = {"OWN"}
  Order <- Template
  MaxPasswords = 2
  MaxEdits = 1
  MaxRuns = 2
SYMMETRY Sameness
CHECK_DEADLOCK FALSE
INVARIANTS BackendTypeOK ReferencesFitBackend AnswersTakeEffect
PROPERTIES RegisteredVaultKeepsPassword OperatorLinesStay

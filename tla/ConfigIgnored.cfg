SPECIFICATION RegistrySpec
CONSTANTS
  Ips = {"a"}
  Floors = {"B1", "GF"}
  DtSpaces = {"lobby"}
  CipherKeys = {"k1"}
  Allowlist = {}
  Sections = {"processing"}
  Baseline <- MCBaseline
  MaxId = 2
  MaxEdits = 5
  MaxCount = 1
  NoValue = NoValue
  Malformed = Malformed
PROPERTY RebuildTakesOverrides
CHECK_DEADLOCK FALSE

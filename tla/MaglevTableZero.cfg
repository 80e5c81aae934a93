\* setup() with an empty backend list (--nb-backends 0).
CONSTANTS
  kSize = 5
  WordMod = 16
  EntryMod = 4
  NbBackendChoices = {0}
  Hashes <- MCNoWrapHashes
SPECIFICATION Spec
CHECK_DEADLOCK FALSE
PROPERTIES
  PopulateReturns

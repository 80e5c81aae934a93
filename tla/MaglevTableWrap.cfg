\* setup() with every hash pair, including rows whose j * skip wraps uint32.
CONSTANTS
  kSize = 5
  WordMod = 16
  EntryMod = 4
  NbBackendChoices = {1, 2}
  Hashes <- MCAllHashes
SPECIFICATION Spec
CHECK_DEADLOCK FALSE
INVARIANTS
  PopulateReadsInsideRow

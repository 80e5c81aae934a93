\* setup() for 1 to 3 backends, all hashes whose rows do not wrap.
CONSTANTS
  kSize = 5
  WordMod = 16
  EntryMod = 4
  NbBackendChoices = {1, 2, 3}
  Hashes <- MCNoWrapHashes
SPECIFICATION Spec
\* setup() returns: its terminal states are real ends of the procedure.
CHECK_DEADLOCK FALSE
INVARIANTS
  TypeOK
  PopulateReadsInsideRow
  NoSentinelAfterPopulate
  Uniformity
  MatchesReference
PROPERTIES
  PopulateReturns

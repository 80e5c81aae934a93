\* The flow cache of one core, checked against the FIFO cache it promises.
CONSTANTS
  kSize = 5
  LookupTable <- MCLookupTable
  NbEntries = 8
  kEntriesPerBucket = 4
  Keys = {0, 1, 2, 4, 6, 8}
  FbkHash <- MCFbkHash
SPECIFICATION Spec
INVARIANT TypeOK
PROPERTY CacheRefinesFifo

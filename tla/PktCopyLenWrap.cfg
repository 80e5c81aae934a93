\* A packet whose length field is within a flit of the uint16_t limit.
CONSTANTS
  NbAllocators = 2
  BufSize = 16
  MaxPending = 2
  LibTxCapacity = 2
  FlitSize = 4
  LenMod = 16
  Batches <- MCWrapBatches
  MaxBatches = 2
SPECIFICATION Spec
\* The process ends: main() returns, exit(2) or an assert.
CHECK_DEADLOCK FALSE
PROPERTIES ShutdownCompletes

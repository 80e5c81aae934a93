\* Two allocators, a 3-request ring, batches of up to three quarters of a
\* buffer, six batches.
CONSTANTS
  NbAllocators = 2
  BufSize = 16
  MaxPending = 2
  LibTxCapacity = 2
  FlitSize = 4
  LenMod = 16
  Batches <- MCBatches
  MaxBatches = 6
SPECIFICATION Spec
\* The process ends: main() returns, exit(2) or an assert.
CHECK_DEADLOCK FALSE
INVARIANTS TypeOK PendingRingNoOverrun CapacityAccounted
PROPERTIES ShutdownCompletes

\* Five packets, below the wrap of nextUpdate; ran_geometric values 1 to 3
\* (p = 1/2 scaled, mean 2 with Rows = 2).
CONSTANTS
  Rows = 2
  Cols = 2
  Gap = 2
  ColHash <- MCColHash
  FlowKeys <- MCFlowKeys
  NonIpv4 = "arp"
  Batches <- MCBatches
  GeoValues = {0, 1, 2, 3}
  GeoLen = 4
  NextUpdateMod = 8
  CounterMod = 64
  MaxPkts = 5
  MaxZeroDraws = 1
SPECIFICATION Spec
\* The process ends when main() returns.
CHECK_DEADLOCK FALSE
INVARIANTS TypeOK
PROPERTIES SampleChargedToOwedPacket SampleLoopTerminates ShutdownCompletes

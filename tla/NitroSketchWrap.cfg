\* More packets than the uint32_t nextUpdate can count (scaled to 4).
CONSTANTS
  Rows = 2
  Cols = 2
  Gap = 2
  ColHash <- MCColHash
  FlowKeys <- MCFlowKeys
  NonIpv4 = "arp"
  Batches <- MCBatches
  GeoValues = {0, 1, 2, 3}
  GeoLen = 4
  NextUpdateMod = 4
  CounterMod = 16
  MaxPkts = 5
  MaxZeroDraws = 1
SPECIFICATION Spec
CHECK_DEADLOCK FALSE
PROPERTY SampleLoopTerminates

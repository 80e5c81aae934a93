\* Two lcores on their own CPUs, two queues each, two arrivals: the
\* liveness checks over the lookup are costly.
CONSTANTS
  NbLcores = 2
  QPerCore = 2
  CpuChoices <- MCPinnedCpus
  Flows <- MCFlows
  FlowHash <- MCFlowHash
  RssQueue <- MCRssQueue
  BurstSize = 2
  RxRingSize = 2
  MaxArrivals = 2
  InitIp = 10
  Vip = 0
  Argvs <- MCArgvs
  SetupErrors = {"getcpu", "nomem"}
  kSize = 5
  LookupTable <- MCLookupTable
  NbEntries = 4
  kEntriesPerBucket = 4
  FbkHash <- MCFbkHash
SPECIFICATION Spec
\* The process ends: main() returns or rte_exit() is called.
CHECK_DEADLOCK FALSE
INVARIANTS TypeOK SentRewritten
PROPERTIES QueueServed 

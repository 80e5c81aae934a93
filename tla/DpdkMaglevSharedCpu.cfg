\* Two lcores whose CPU sets overlap: sched_getcpu() may give both the same CPU.
\* No traffic is needed: the failure is in setup().
CONSTANTS
  NbLcores = 2
  QPerCore = 2
  CpuChoices <- MCSharedCpus
  Flows <- MCFlows
  FlowHash <- MCFlowHash
  RssQueue <- MCRssQueue
  BurstSize = 2
  RxRingSize = 2
  MaxArrivals = 0
  InitIp = 10
  Vip = 0
  Argvs <- MCArgvs
  SetupErrors = {}
  kSize = 5
  LookupTable <- MCLookupTable
  NbEntries = 4
  kEntriesPerBucket = 4
  FbkHash <- MCFbkHash
SPECIFICATION Spec
\* The process ends: main() returns or rte_exit() is called.
CHECK_DEADLOCK FALSE
INVARIANT NoSetupExit

---------------------------- MODULE DpdkMaglev -----------------------------
(***************************************************************************)
(* The Maglev load balancer binary, src/maglev/src/dpdk_maglev.cpp: one    *)
(* lcore_work() per DPDK lcore (the main lcore runs it too, then waits     *)
(* for the workers), each polling its q_per_core RX queues of port 0 in a  *)
(* while (!quit) loop.  Every lcore builds its own Maglev object: its own  *)
(* copy of the lookup table (the same on every lcore, setup() being        *)
(* deterministic; MaglevTable checks it) and its own flow cache, named     *)
(* "hash_cache<cpu>" after sched_getcpu().                                 *)
(*                                                                         *)
(* The NIC is the environment: it steers each packet to an RX queue by     *)
(* RSS and drops it (imissed) when that ring is full.  A packet is the     *)
(* flow it belongs to while it waits in a ring, and a record of its flow   *)
(* and destination address once it has been looked up.                    *)
(***************************************************************************)
EXTENDS Naturals, Sequences, FiniteSets
LOCAL INSTANCE SequencesExt

CONSTANTS
  NbLcores,          \* rte_lcore_count(); lcore 0 is the main lcore
  QPerCore,          \* q_per_core
  CpuChoices(_),     \* the CPUs sched_getcpu() may return on an lcore
  Flows,             \* the flows (5-tuples) packets belong to
  FlowHash(_),       \* rte_jhash_32b over src, dst ^ proto and the ports
  RssQueue(_),       \* the RX queue the NIC's RSS steers a flow to
  BurstSize,         \* BURST_SIZE
  RxRingSize,        \* RX ring capacity
  MaxArrivals,       \* bound on the packets the NIC receives
  InitIp,            \* RTE_IPV4(10, 0, 0, 1): backend i has InitIp + i
  Vip,               \* the destination packets arrive with
  Argvs,             \* the option lists main() may be given after the EAL
                     \* options: sequences of [opt, val] records
  SetupErrors,       \* the failures of setup() other than a name clash:
                     \* "getcpu" (sched_getcpu() < 0), "nomem" (rte_fbk_hash_
                     \* create() out of memory)
  kSize, LookupTable, NbEntries, kEntriesPerBucket, FbkHash(_)

Lcores == 0 .. NbLcores - 1
Queues == 0 .. NbLcores * QPerCore - 1

ASSUME /\ QPerCore \in Nat \ {0}
       /\ \A f \in Flows : RssQueue(f) \in Queues
       /\ Vip \in Nat /\ Vip < InitIp
       /\ SetupErrors \subseteq {"getcpu", "nomem"}

VARIABLES
  lcore_pc,   \* "idle" (not launched), "setup", "test" (the while (!quit)
              \* test), "poll", "done"
  q_offset,   \* the for loop's q_offset
  cache,      \* cache[l]: the entries of lcore l's flow cache
  fbk_names,  \* the names of the fbk hash tables that exist in DPDK
  cpu,        \* cpu[l]: what sched_getcpu() returned in lcore l's setup()
  quit,       \* the volatile quit flag
  exited,     \* rte_exit() was called: the process is gone
  finished,   \* main() returned after rte_eal_mp_wait_lcore()
  rx_ring,    \* rx_ring[q]: packets the NIC has put on queue q, in order
  arrivals,   \* packets the NIC has received
  imissed,    \* packets the NIC dropped on a full ring
  rx_stats, tx_stats, drops,  \* the per-queue counters, indexed by queue
  wire        \* the packets rte_eth_tx_burst() has sent

vars == <<lcore_pc, q_offset, cache, fbk_names, cpu, quit, exited, finished,
          rx_ring, arrivals, imissed, rx_stats, tx_stats, drops, wire>>

(* The flow cache's operations, applied to an lcore's own entries.        *)
Cache == INSTANCE MaglevCache
           WITH Keys <- {FlowHash(f) : f \in Flows},
                t <- cache, used_entries <- 0, last_value <- 0

(* Fault variant of CacheName: the name lacks the CPU number.             *)
CacheNameFixed(c) == <<"hash_cache">>

(* snprintf(hash_name, ..., "hash_cache%03u", lcore_id): the cache is     *)
(* named after the CPU sched_getcpu() returned, one name per CPU.        *)
CacheName(c) == <<"hash_cache", c>>

(* uint32_t first_queue: queue is given to the workers in lcore order,    *)
(* starting at q_per_core; the main lcore calls lcore_work(0).            *)
FirstQueue(l) == l * QPerCore

(* Fault variant of BackendIp: the backends are numbered from InitIp + 1.  *)
BackendIpShifted(b) == InitIp + b + 1

(* backend_ips_[i]: the backends are InitIp, InitIp + 1, ...              *)
BackendIp(b) == InitIp + b

(* maglev.lookup(buf): the flow hash indexes the cache, which falls back   *)
(* to the lookup table, and the destination becomes that backend's IP.    *)
LookupPacket(acc, f) ==
  LET r == Cache!GetCachedHashValue(acc.t, FlowHash(f)) IN
  [t |-> r.t, pkts |-> Append(acc.pkts, [flow |-> f, dst |-> BackendIp(r.value)])]

(* Fault variant of LookupBurst: the for loop stops one packet short.     *)
LookupBurstButLast(tbl, burst) ==
  LET done == FoldLeft(LookupPacket, [t |-> tbl, pkts |-> <<>>],
                       SubSeq(burst, 1, Len(burst) - 1))
  IN [done EXCEPT !.pkts = Append(@, [flow |-> Last(burst), dst |-> Vip])]

(* for (i = 0; i < nb_rx; ++i) maglev.lookup(...), in order.              *)
LookupBurst(tbl, burst) ==
  FoldLeft(LookupPacket, [t |-> tbl, pkts |-> <<>>], burst)

(* Fault variant of RoundDone: the for loop stops before the last queue.  *)
RoundDoneEarly(o) == o = QPerCore - 1

(* The for loop over the lcore's queues is over.                          *)
RoundDone(o) == o = QPerCore

Init ==
  /\ lcore_pc = [l \in Lcores |-> "idle"]
  /\ q_offset = [l \in Lcores |-> 0]
  /\ cache = [l \in Lcores |-> <<>>]
  /\ fbk_names = {}
  /\ cpu = [l \in Lcores |-> 0]
  /\ quit = FALSE
  /\ exited = FALSE
  /\ finished = FALSE
  /\ rx_ring = [q \in Queues |-> <<>>]
  /\ arrivals = 0
  /\ imissed = 0
  /\ rx_stats = [q \in Queues |-> 0]
  /\ tx_stats = [q \in Queues |-> 0]
  /\ drops = [q \in Queues |-> 0]
  /\ wire = {}

(* The process is alive and main() has not returned.                      *)
Running == ~exited /\ ~finished

(* port_init() has started port 0 and main() has launched the lcores.    *)
Launched == \E l \in Lcores : lcore_pc[l] # "idle"

(* parse_args()'s getopt_long loop over the remaining options: --help    *)
(* returns 1 at once, an unknown option -1, and --q-per-core and         *)
(* --nb-backends overwrite their value (atoi of the argument) each time.  *)
RECURSIVE ParseFrom(_, _)
ParseFrom(argv, acc) ==
  IF argv = <<>> THEN acc
  ELSE LET o == Head(argv) IN
       CASE o.opt = "help"        -> [acc EXCEPT !.ret = 1]
         [] o.opt = "q-per-core"  -> ParseFrom(Tail(argv), [acc EXCEPT !.q_per_core = o.val])
         [] o.opt = "nb-backends" -> ParseFrom(Tail(argv), [acc EXCEPT !.nb_backends = o.val])
         [] OTHER                 -> [acc EXCEPT !.ret = -1]

(* parse_args(): the defaults are q_per_core 1 and nb_backends 1024.      *)
ParseArgs(argv) == ParseFrom(argv, [ret |-> 0, q_per_core |-> 1, nb_backends |-> 1024])

(* The option lists that parse give the model's q_per_core, and a        *)
(* non-empty backend list (a q_per_core of 0 divides by zero in           *)
(* lcore_work(), and 0 backends make setup() spin; neither is taken).     *)
ASSUME \A argv \in Argvs :
         ParseArgs(argv).ret = 0 =>
           ParseArgs(argv).q_per_core = QPerCore /\ ParseArgs(argv).nb_backends > 0

(* port_init(): rte_eth_dev_info_get(), rte_eth_dev_configure() with     *)
(* lcore_count * q_per_core queues each way, the queue setups,            *)
(* rte_eth_dev_start(), the MAC address and promiscuous mode; the first   *)
(* call that fails ends it with that call's error.                        *)
PortInitResults == {0, -1}

(* main() before any lcore runs: rte_eal_init() may fail; parse_args()    *)
(* returning 1 (--help) makes main() return 0 and -1 ends in rte_exit();  *)
(* then the one-port check, rte_pktmbuf_pool_create() and port_init()     *)
(* with lcore_count * q_per_core queues may each fail into rte_exit().    *)
(* On success the workers are launched with rte_eal_remote_launch() and   *)
(* the main lcore calls lcore_work(0) itself.                             *)
MainSetup ==
  /\ Running
  /\ ~Launched
  /\ \/ exited' = TRUE /\ UNCHANGED <<lcore_pc, finished>>
     \/ \E argv \in Argvs :
          LET r == ParseArgs(argv) IN
          \/ r.ret = 1 /\ finished' = TRUE /\ UNCHANGED <<lcore_pc, exited>>
          \/ r.ret = -1 /\ exited' = TRUE /\ UNCHANGED <<lcore_pc, finished>>
          \/ /\ r.ret = 0
             /\ \E res \in PortInitResults :
                  IF res = 0
                  THEN lcore_pc' = [l \in Lcores |-> "setup"]
                       /\ UNCHANGED <<exited, finished>>
                  ELSE exited' = TRUE /\ UNCHANGED <<lcore_pc, finished>>
  /\ UNCHANGED <<q_offset, cache, fbk_names, cpu, quit, rx_ring, arrivals,
                 imissed, rx_stats, tx_stats, drops, wire>>

(* The NIC receives a packet of flow f and steers it by RSS; a full ring  *)
(* drops it and counts it in imissed.  It receives nothing before         *)
(* port_init() has started the port.                                      *)
NicReceive(f) ==
  LET q == RssQueue(f) IN
  /\ Running
  /\ Launched
  /\ arrivals < MaxArrivals
  /\ arrivals' = arrivals + 1
  /\ IF Len(rx_ring[q]) < RxRingSize
       THEN rx_ring' = [rx_ring EXCEPT ![q] = Append(@, f)] /\ imissed' = imissed
       ELSE imissed' = imissed + 1 /\ rx_ring' = rx_ring
  /\ UNCHANGED <<lcore_pc, q_offset, cache, fbk_names, cpu, quit, exited,
                 finished, rx_stats, tx_stats, drops, wire>>

(* signal_handler(): SIGINT or SIGTERM sets quit.                         *)
Signal ==
  /\ Running
  /\ ~quit
  /\ quit' = TRUE
  /\ UNCHANGED <<lcore_pc, q_offset, cache, fbk_names, cpu, exited, finished,
                 rx_ring, arrivals, imissed, rx_stats, tx_stats, drops, wire>>

(* sched_getcpu() returns -1 and setup() returns errno.                   *)
GetCpuFails == "getcpu" \in SetupErrors

(* Whether rte_fbk_hash_create() may run out of memory.                   *)
OomChoices == IF "nomem" \in SetupErrors THEN BOOLEAN ELSE {FALSE}

(* rte_fbk_hash_create() returns NULL and setup() returns rte_errno:      *)
(* EEXIST when a live table has the name, ENOMEM when memory ran out.     *)
FbkCreateFails(c, oom) == CacheName(c) \in fbk_names \/ oom

(* lcore_work(): Maglev maglev(backend_ips); maglev.setup().  setup()      *)
(* returns errno when sched_getcpu() fails, and otherwise names the flow  *)
(* cache after the CPU it returned; rte_fbk_hash_create() fails with      *)
(* EEXIST when a live table has that name, or for lack of memory.  Any    *)
(* error makes lcore_work() call rte_exit().  Otherwise the cache is      *)
(* created empty and the loop starts with the while (!quit) test.         *)
SetupMaglev(l) ==
  /\ Running
  /\ lcore_pc[l] = "setup"
  /\ \/ /\ GetCpuFails
        /\ exited' = TRUE
        /\ UNCHANGED <<lcore_pc, cache, fbk_names, cpu>>
     \/ \E c \in CpuChoices(l), oom \in OomChoices :
          /\ cpu' = [cpu EXCEPT ![l] = c]
          /\ \/ /\ FbkCreateFails(c, oom)
                /\ exited' = TRUE
                /\ UNCHANGED <<lcore_pc, cache, fbk_names>>
             \/ /\ ~FbkCreateFails(c, oom)
                /\ fbk_names' = fbk_names \cup {CacheName(c)}
                /\ cache' = [cache EXCEPT ![l] =
                               [e \in Cache!Entries |-> Cache!EmptyEntry]]
                /\ lcore_pc' = [lcore_pc EXCEPT ![l] = "test"]
                /\ UNCHANGED exited
  /\ UNCHANGED <<q_offset, quit, finished, rx_ring, arrivals, imissed,
                 rx_stats, tx_stats, drops, wire>>

(* One iteration of the for loop on a queue with nothing to receive:      *)
(* rte_eth_rx_burst() returns 0 and the loop continues.                   *)
PollEmpty(l) ==
  LET q == FirstQueue(l) + q_offset[l] IN
  /\ Running
  /\ lcore_pc[l] = "poll"
  /\ ~RoundDone(q_offset[l])
  /\ rx_ring[q] = <<>>
  /\ q_offset' = [q_offset EXCEPT ![l] = @ + 1]
  /\ UNCHANGED <<lcore_pc, cache, fbk_names, cpu, quit, exited, finished,
                 rx_ring, arrivals, imissed, rx_stats, tx_stats, drops, wire>>

(* One iteration of the for loop that receives nb_rx packets: count them, *)
(* look each up, hand them to rte_eth_tx_burst(), which sends the first   *)
(* nb_tx of them, and count and free the rest as drops.                   *)
PollBurst(l) ==
  LET q      == FirstQueue(l) + q_offset[l]
      nb_rx  == IF Len(rx_ring[q]) < BurstSize THEN Len(rx_ring[q]) ELSE BurstSize
      looked == LookupBurst(cache[l], SubSeq(rx_ring[q], 1, nb_rx))
  IN
  /\ Running
  /\ lcore_pc[l] = "poll"
  /\ ~RoundDone(q_offset[l])
  /\ rx_ring[q] # <<>>
  /\ rx_ring' = [rx_ring EXCEPT ![q] = SubSeq(@, nb_rx + 1, Len(@))]
  /\ rx_stats' = [rx_stats EXCEPT ![q] = @ + nb_rx]
  /\ cache' = [cache EXCEPT ![l] = looked.t]
  /\ \E nb_tx \in 0 .. nb_rx :
       /\ tx_stats' = [tx_stats EXCEPT ![q] = @ + nb_tx]
       /\ drops' = [drops EXCEPT ![q] = @ + (nb_rx - nb_tx)]
       /\ wire' = wire \cup ToSet(SubSeq(looked.pkts, 1, nb_tx))
  /\ q_offset' = [q_offset EXCEPT ![l] = @ + 1]
  /\ UNCHANGED <<lcore_pc, fbk_names, cpu, quit, exited, finished, arrivals,
                 imissed>>

(* The for loop has visited every queue: back to the while (!quit) test. *)
ForLoopEnd(l) ==
  /\ Running
  /\ lcore_pc[l] = "poll"
  /\ RoundDone(q_offset[l])
  /\ lcore_pc' = [lcore_pc EXCEPT ![l] = "test"]
  /\ UNCHANGED <<q_offset, cache, fbk_names, cpu, quit, exited, finished,
                 rx_ring, arrivals, imissed, rx_stats, tx_stats, drops, wire>>

QuitSeen(l) == quit

(* while (!quit): quit is not set, so the for loop starts at q_offset 0.  *)
LoopAgain(l) ==
  /\ Running
  /\ lcore_pc[l] = "test"
  /\ ~QuitSeen(l)
  /\ lcore_pc' = [lcore_pc EXCEPT ![l] = "poll"]
  /\ q_offset' = [q_offset EXCEPT ![l] = 0]
  /\ UNCHANGED <<cache, fbk_names, cpu, quit, exited, finished,
                 rx_ring, arrivals, imissed, rx_stats, tx_stats, drops, wire>>

(* while (!quit): quit is set; lcore_work() prints its counters and       *)
(* returns, and ~Maglev() frees the flow cache, which frees its name.     *)
LoopExit(l) ==
  /\ Running
  /\ lcore_pc[l] = "test"
  /\ QuitSeen(l)
  /\ lcore_pc' = [lcore_pc EXCEPT ![l] = "done"]
  /\ fbk_names' = fbk_names \ {CacheName(cpu[l])}
  /\ cache' = [cache EXCEPT ![l] = <<>>]
  /\ UNCHANGED <<q_offset, cpu, quit, exited, finished, rx_ring, arrivals,
                 imissed, rx_stats, tx_stats, drops, wire>>

(* main(): lcore_work(0) has returned and rte_eal_mp_wait_lcore() returns *)
(* once every worker has; main() prints the port statistics and returns.  *)
MainReturn ==
  /\ Running
  /\ \A l \in Lcores : lcore_pc[l] = "done"
  /\ finished' = TRUE
  /\ UNCHANGED <<lcore_pc, q_offset, cache, fbk_names, cpu, quit, exited,
                 rx_ring, arrivals, imissed, rx_stats, tx_stats, drops, wire>>

LcoreStep(l) ==
  \/ SetupMaglev(l)
  \/ PollEmpty(l)
  \/ PollBurst(l)
  \/ ForLoopEnd(l)
  \/ LoopAgain(l)
  \/ LoopExit(l)

Next ==
  \/ MainSetup
  \/ \E f \in Flows : NicReceive(f)
  \/ Signal
  \/ \E l \in Lcores : LcoreStep(l)
  \/ MainReturn

(* Every lcore is a polling thread pinned to its own CPU, and the main    *)
(* lcore keeps running after its own lcore_work(): each makes progress.   *)
(* The NIC and the signal need not come.                                  *)
Spec == Init /\ [][Next]_vars
             /\ \A l \in Lcores : WF_vars(LcoreStep(l))
             /\ WF_vars(MainSetup) /\ WF_vars(MainReturn)

-----------------------------------------------------------------------------
BackendIps == {InitIp + LookupTable[c] : c \in DOMAIN LookupTable}

TypeOK ==
  /\ lcore_pc \in [Lcores -> {"idle", "setup", "test", "poll", "done"}]
  /\ q_offset \in [Lcores -> 0 .. QPerCore]
  /\ fbk_names \subseteq {CacheName(c) : c \in UNION {CpuChoices(l) : l \in Lcores}}
  /\ quit \in BOOLEAN /\ exited \in BOOLEAN /\ finished \in BOOLEAN
  /\ rx_ring \in [Queues -> Seq(Flows)]
  /\ \A q \in Queues : Len(rx_ring[q]) <= RxRingSize
  /\ arrivals \in 0 .. MaxArrivals
  /\ wire \subseteq [flow : Flows, dst : BackendIps]

(* Every packet put on the wire, by any lcore and whatever its flow cache *)
(* held, carries the backend the lookup table gives its flow hash: the    *)
(* per-core caches never make two cores, or two packets of one flow,      *)
(* disagree (spec 8.5 stickiness, and across cores too).  Backend i is   *)
(* init_ip + i, as lcore_work() builds backend_ips.                       *)
SentRewritten ==
  \A p \in wire : p.dst = InitIp + LookupTable[FlowHash(p.flow) % kSize]

(* A packet waiting on an RX queue is eventually received by the lcore    *)
(* that owns the queue, unless the loop is told to quit or the process    *)
(* exits: the for loop visits every one of the lcore's q_per_core queues. *)
QueueServed ==
  \A q \in Queues :
    rx_ring[q] # <<>> ~> (rx_ring[q] = <<>> \/ quit \/ exited)

(* After SIGINT or SIGTERM, every lcore leaves its loop and main()        *)
(* returns, unless the process has already exited.                        *)
ShutdownCompletes == quit ~> (finished \/ exited)

(* Each worker owns its flow cache, so setup() never fails on an lcore   *)
(* for want of one: once main() has launched the lcores the process does  *)
(* not end in rte_exit().  Checked with no memory or sched_getcpu()       *)
(* failure, so that only the cache names can break it.                    *)
NoSetupExit == exited => ~Launched
=============================================================================

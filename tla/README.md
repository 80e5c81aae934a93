# TLA+ models of enso_eval

This directory holds TLA+ models of the applications in `src/` (the
evaluation programs of the Enso NIC interface) and the TLC configurations
that check them. `PROJECT.json` lists the components, the runs, the mutants
that show each property can fail, the map from each definition to the source
lines it models, the findings, and the hazards of the code.

## The system and its parts

| Part | Source | Status |
|---|---|---|
| Maglev lookup table (`Maglev::setup`, `generate_permutations`, `populate`) | `src/maglev/src/maglev.hpp` | modelled: `MaglevTable` |
| Maglev per-core flow cache (`get_cached_hash_value*`) | `src/maglev/src/maglev.hpp` | modelled: `MaglevCache`, abstract spec `FlowCacheFifo` |
| DPDK Maglev load balancer (`lcore_work`, `signal_handler`, `main`) | `src/maglev/src/dpdk_maglev.cpp` | partly: `DpdkMaglev` |
| Maglev tests | `src/maglev/src/test_maglev.cpp` | not modelled (test driver) |
| pktcopy echo server and TX ring-buffer allocator | `src/pktcopy/*` | partly: `PktCopy` |
| NitroSketch monitor (count-min sketch with geometric sampling) | `src/nitrosketch/*` | partly: `NitroSketch` (Count Sketch and top-k are compiled out) |
| Log monitor (Hyperscan over Enso streams) | `src/log_monitor/src/log_monitor.hpp`, `enso_log_monitor.cpp`, `build_regex_database.cpp` | partly: `LogMonitor` (the Hyperscan timing test `test_log_monitor.cpp` is not modelled) |
| pcap generator | `src/log_monitor/src/generate_pcap_from_log.cpp` | partly: `PcapGenerator` (the usage check, an unreadable file and the header bytes are not modelled) |
| MICA network back ends and netbench | `src/mica2/...` | not modelled (see Not modelled) |

How the Maglev parts interact: `main()` starts one `lcore_work()` per
lcore. Each worker builds its own `Maglev` object. `setup()` creates a flow
cache (an `rte_fbk_hash` table named after the CPU the worker runs on) and
builds the lookup table. The worker then polls its `q_per_core` RX queues
until the signal handler sets `quit`. For every packet it looks up the flow
hash: first in the cache and, on a miss, in the table, and caches the
result. It then rewrites the destination IP to the backend's address and
sends the burst. Packets the TX ring does not take are freed.

## Modules

- **`MaglevTable`** models `Maglev::Maglev()` and `Maglev::setup()`.
  - State: `pc` (the phase of `setup()`), `nb_backends`, `permutations`,
    `hash_table`, and `populate()`'s locals `next`, `n` and `i`.
  - `SetupCreateCache` is the cache creation, which succeeds or fails.
  - `GeneratePermutations` is `generate_permutations()` for any hash pairs
    `rte_jhash_32b_2hashes` may return.
  - `PopulateSkip` is one iteration of `populate()`'s inner `while`.
  - `PopulateClaim` is one slot claimed, with the `n == kSize` return.
  - `CheckTable` is the sentinel `assert`.
  - The widths are scaled together so that every wrap sits where it does
    in the code. The code uses kSize = 65537, `uint16_t` entries and
    `uint32_t` rows; the model uses kSize = 2^k+1, `EntryMod` = 2^k and
    `WordMod` = 2^2k.
  - `ReferenceFill` is a recursive reference definition of Maglev's
    round-robin fill, without the cursors.
- **`MaglevCache`** models `get_cached_hash_value_with_bucket()` over
  the fbk entries `{is_entry, value, key}`.
  - One `Lookup` is one whole call. It either fills the first free entry,
    returns the value of the matching entry, or overwrites the entry after
    the newest one.
  - In every case where an entry is written, the call records that entry
    as the newest one in the bucket's first `is_entry`.
- **`FlowCacheFifo`** is what the cache promises (spec 4.2): every lookup
  returns the table's backend, and each bucket is a FIFO of the last
  `Depth` distinct keys that missed. `MaglevCache` refines it through
  `FifoOf`, which reads a bucket's entries oldest first.
- **`DpdkMaglev`** composes the worker loop of every lcore with
  `MaglevCache`. It uses `INSTANCE MaglevCache` and folds one cache lookup
  over each burst.
  - State:
    - `lcore_pc` is idle (not launched yet), setup, test (the
      `while (!quit)` check), poll or done.
    - `q_offset` is the queue loop index.
    - `cache` is each lcore's fbk table.
    - `fbk_names` is DPDK's global list of hash names.
    - `quit`, `exited` (`rte_exit`) and `finished` (`main` returned).
    - The NIC state: `rx_ring`, `arrivals`, `imissed`.
    - The counters `rx_stats`, `tx_stats` and `drops`.
    - `wire`, the set of packets sent.
  - `MainSetup` is `main()` before launch: EAL init, `parse_args`, the
    one-port check, the mbuf pool and `port_init`. Any of them may fail
    into `rte_exit`, and `--help` returns 0.
  - `parse_args` is the recursive operator `ParseArgs` over an option
    list from `Argvs`. `--help` returns 1 and an unknown option returns
    -1; each `--q-per-core` or `--nb-backends` overwrites the earlier
    value.
  - An ASSUME keeps only the lists that parse to the model's `QPerCore`
    (> 0) and to a non-empty backend list. Otherwise every lcore is
    launched. The NIC receives nothing before that (`Launched`).
  - Environment actions: `NicReceive` (an RSS-steered arrival, or an
    `imissed` drop when the ring is full) and `Signal`.
  - Worker actions: `SetupMaglev` (`setup()`: `sched_getcpu()` may fail
    (`GetCpuFails`), and `rte_fbk_hash_create()` fails on a name clash or,
    where `SetupErrors` allows, for lack of memory (`FbkCreateFails`); any
    error is `rte_exit()`), `PollEmpty`, `PollBurst` (rx, look up,
    rewrite, a tx that may take any prefix of the burst, free the rest),
    `ForLoopEnd`, `LoopAgain` and `LoopExit` (free the cache, drop its name).
  - `MainReturn` is `rte_eal_mp_wait_lcore()` followed by the return.
- **`PktCopy`** models `enso_pktcpy.cc`'s two threads and the
  `RingBufferMemoryAllocator`s of `enso_userlib.cc`.
  - Socket thread: `SocketSetup` (queue creation, which can `exit(2)`;
    the huge-page and `initialize()` failures, which end in
    `assert(false)`; and allocator initialisation), `RecvNothing`, `RecvError` (a negative
    `recv_select()`, `exit(4)`), `RecvBatch` (which reads
    `phys_addr` before the batch), `CopyPacket` (one `allocate()` of
    `pkt_aligned_len` in `uint16_t`; the abort when it returns nullptr),
    `SendBatch` (send, save the request at `tx_pr_tail`, next allocator),
    `Completions` (free the reported requests in order) and `SocketExit`.
  - `MainStep` is `main()`'s wait for `setup_done`, its statistics loop
    and the join. `Signal` is `int_handler`.
  - The Enso library is the environment. `send` waits while
    `LibTxCapacity` requests are on the NIC, `NicComplete` finishes one,
    and `get_completions` returns the count finished since its last call.
    The library's source is not in this repository, so this is an assumed
    contract, with `LibTxCapacity` ≤ `kMaxPendingTxRequests`.
  - Lengths are bytes scaled by 16: a flit is 4 bytes, `uint16_t` wraps at
    16, and a buffer is 16 bytes.
- **`NitroSketch`** models `enso_nitrosketch.cpp` as `constants.h` builds
  it (`NITRO_CMS`, `FASTRAND_GEO`, no `TOPK`).
  - `cm_init` fills `geo_arr` with any values of `GeoValues` (the outcomes
    of `ran_geometric`) and starts the walk at `geoArr[++geoIdx]`.
    `SocketSetup` wraps it with `setup_done = 1`, or dies of SIGSEGV
    (`pc = "segv"`): `Device::Create` returns nullptr on failure and
    `device->AllocateRxTxPipe()` uses it unchecked.
  - Socket-thread actions:
    - `RecvBatch` takes a batch.
    - `NextPacket` increments `pkt_count`. For an IPv4 packet it then
      enters the sampling loop.
    - `Sample` is one `cm_processing()`. It adds `gap` to the flow's
      counter in row `line_to_update` and steps the walk.
    - `SampleDone` is the loop's failing test (`SampleLoopTest`, the
      `pkt_count >= cm.nextUpdate` of line 124).
    - `BatchDone` and `SocketExit` end a batch and the thread.
  - `Signal` and `MainStep` are as in `PktCopy`.
  - The widths are scaled:
    - `NextUpdateMod` stands for the `uint32_t` `nextUpdate`.
    - `GeoLen` stands for the 2^16-entry `geoArr`, indexed by the wrapping
      `unsigned short geoIdx`.
    - `CounterMod` stands for the `int32_t` counters.
  - XXH64 is a constant function `ColHash`.
  - `prev_ipv4` is a history variable: the `pkt_count` of the last IPv4
    packet whose sampling loop has ended. It exists only to state
    `SampleChargedToOwedPacket`.
  - `GeoArrays` allows the 0 that `ran_geometric` yields when `rand()`
    returns 0. log(0) = -inf, and converting +inf to unsigned int is
    undefined (0 on x86). At most `MaxZeroDraws` entries may be 0.
- **`LogMonitor`** models `enso_log_monitor.cpp` with `LogMonitor::setup()`
  and `lookup()`.
  - `proc` records whether the process is running, has called `exit()`,
    or has aborted.
  - `MainSpawn` is one iteration of `main()`'s thread loop. The thread is
    started, then `set_core_id()` either pins it or fails. On failure
    `return 6` destroys joinable threads, which calls `std::terminate`.
  - Per thread, in order:
    - `CreateDevice` is `exit(2)` or a device.
    - `AllocatePipe` is one pipe, or `exit(3)`.
    - `SetupMonitor` is the whole `setup()`. The pattern file is a record:
      whether it is readable, and a sequence of line kinds (comment,
      pattern, a pattern Hyperscan rejects, and each parse error).
      `ParseFile`, `BuildDatabase` and `DatabasesFromFile` give the
      functions' return codes. A non-numeric id makes `std::stoi` throw,
      and the process aborts. Any other failure, including
      `hs_open_stream` and `hs_alloc_scratch` running out of memory, ends
      in `exit(4)`. Success sets `setup_done`.
    - `Recv` is one batch scanned by `lookup()`. `match_count_` adds the
      count. `nb_matches` adds the count, or -1 in `uint64_t` when the scan
      failed.
    - `ThreadEnd` leaves the loop and destroys the `LogMonitor`
      (`CloseMonitor`). If any Hyperscan close or free call in
      `~LogMonitor()` fails, it calls `std::terminate`.
  - `MainStep` waits for the first `setup_done`, shows statistics until
    SIGINT, and joins the threads in order (`JoinLoopDone`).
- **`PcapGenerator`** models `generate_pcap_from_log.cpp`, a sequential
  program, with one action per loop iteration of `main()`.
  - A byte is `"a"` (any text byte), `NL` or `NUL`. A byte of a
    `new char[]` that nothing wrote is `Undef`.
  - `SplitStep` is one iteration of the split loop. At a newline,
    `std::string line(buf, line_begin, len)` first turns the
    unterminated `char*` into a temporary of `strlen(buf)` bytes
    (`CStr`). A line that ends past that temporary is truncated. A line
    that begins past it throws `out_of_range`, and the program aborts.
    After the loop, `lines.size() / nb_streams` raises SIGFPE when
    `NB_DST` is 0.
  - `FillBuffer` builds one stream buffer of `buffer_size` bytes
    (`StreamBuffer`). It holds every line, starting at line
    `i * line_offset`, and ends in unwritten bytes.
  - `WritePacket` is one iteration of the inner packet loop. It divides
    by `nb_dst / nb_src`, which raises SIGFPE when that is 0, and writes
    bytes `[i, i + payload_size)` of `buffers[j]`. When `i` reaches
    `buffer_size`, `main()` returns.
- `MC_LogMonitor` launches one of the two programs of `src/log_monitor`
  (`program`). The other program keeps its initial state and takes no
  step, so the run's state space is the sum of the two.
- `MC_*` modules give the constants for TLC.

## Runs

| Run | Expect | What it shows |
|---|---|---|
| `maglev_table` | pass | For 1–3 backends and every non-wrapping hash pair, `populate()` reads only inside rows, returns, leaves no sentinel, and is uniform (each backend gets ⌊kSize/N⌋ or ⌈kSize/N⌉ slots). Its table equals `ReferenceFill`. |
| `maglev_table_wrap` | violation | With skips near 2^32/kSize the `uint32_t` product wraps. The row then repeats a slot and `populate()` reads past it (maglev.hpp:208). |
| `maglev_table_zero` | violation | With no backends `populate()` never returns (spec says `EmptyBackendSet`). |
| `maglev_cache` | pass | The fbk-based cache refines `FlowCacheFifo` (`CacheRefinesFifo`). |
| `dpdk_maglev` | pass | Two lcores, RSS over four queues, partial TX. Every packet sent carries its flow's backend (`SentRewritten`). `main()`'s own setup failures, and each lcore's `sched_getcpu()` and out-of-memory failures, may end the process in `rte_exit()`. Every non-empty queue is eventually polled (`QueueServed`). After a signal every lcore exits and `main()` returns (`ShutdownCompletes`). |
| `dpdk_maglev_shared_cpu` | violation | Two lcores on one CPU both create `hash_cache<cpu>`. The second `rte_fbk_hash_create()` fails and the process exits, though spec 5 says per-core caches never fail. |
| `pktcopy` | pass | The pending ring never overruns although `tx_pr_tail` has no full check (`PendingRingNoOverrun`). Every TX byte is accounted for (`CapacityAccounted`). SIGINT ends the program unless a receive error or a setup failure ended it first (`ShutdownCompletes`). |
| `nitrosketch` | pass | With fewer packets than `nextUpdate` can count, a mix of IPv4 and non-IPv4 packets, and any contents of `geoArr` (values 0–3, at most one 0), every sampling loop ends (`SampleLoopTerminates`). Every sample is charged to the packet that owns its walk slot, or to the first IPv4 packet after non-IPv4 ones, and never to a later one (`SampleChargedToOwedPacket`): the loop leaves no position behind, and the non-IPv4 bias of line 122 is exactly this. SIGINT ends the program unless setup crashed on a null device (`ShutdownCompletes`). |
| `nitrosketch_wrap` | violation | Once `pkt_count` reaches 2^32 (scaled to 4), `nextUpdate` wraps below it and `while (pkt_count >= cm.nextUpdate)` never ends (enso_nitrosketch.cpp:124). The thread then ignores SIGINT. |
| `log_monitor` | pass | Two threads, where any device, pipe, Hyperscan-setup or pinning step may fail and scans may fail. After SIGINT the process always ends: `main()` joins every thread and returns, or an `exit()` or `std::terminate` ended it first (`ShutdownCompletes`). In the same run the pcap generator handles every log of up to five bytes, with `NB_SRC` and `NB_DST` from 0 to 3. For a log without zero bytes, each destination's payloads are, in order, the log's complete lines rotated to that stream's first line, then one unwritten byte for each byte after the last newline (`PacketsCarryRotatedLog`, line 175). |
| `pcap_source_range` | violation | With `NB_SRC` = 2 and `NB_DST` = 3, `j / (nb_dst / nb_src)` gives destination 2 the source address 192.168.0.2, a third source where the usage line asks for `NB_SRC` of them (generate_pcap_from_log.cpp:159). |
| `pktcopy_len_wrap` | violation | A length field near 65535 rounds to 0, so the copy loop spins and SIGINT is ignored (enso_pktcpy.cc:166). |

### Bounds, and why they are enough

- **MaglevTable:** kSize = 5 (2^2+1) is the smallest table where rows
  wrap, skips vary, and N = 1, 2, 3 give both exact and uneven shares. All
  hash residues are enumerated.
- **MaglevCache:** 2 buckets of 4 entries, and six keys with five in one
  bucket. This exercises fill, hit and eviction, including an eviction at
  index 0, where both writes land on one word.
- **DpdkMaglev:**
  - Two lcores with two queues each; RSS maps three flows onto three of
    the four queues, so one queue stays idle.
  - Ring size 2 and burst 2, so both a full burst and a partial burst
    occur.
  - Two arrivals, because the liveness checks over the lookup are
    expensive. The cache's hit and eviction paths are covered by
    `maglev_cache`, where its refinement is checked over longer
    sequences. Here the run shows a miss, a hit on the first entry and the
    cross-core behaviour.
  - A 4-entry cache (one bucket).

- **PktCopy:**
  - Two allocators, `kMaxPendingTxRequests` = 2 (a three-slot ring), a
    library that lets two requests wait on the NIC, and six batches.
  - With these bounds the ring fills to all three slots, each allocator
    wraps more than once, and a batch can straddle the buffer end.

- **NitroSketch:**
  - Two rows, two columns, and two flows that collide in row 0 only.
  - Three batch shapes, one with a non-IPv4 packet, and five packets.
  - `geoArr` has four entries, so `geoIdx` wraps and draws are reused.
  - `nextUpdate` wraps at 8 in the pass run (it stays below 8 with five
    packets) and at 4 in `nitrosketch_wrap`.
  - `geoArr` draws are 0–3, with at most one 0.
  - The counters wrap at 64. No count of five packets reaches 64; the
    `int32_t` overflow (nitrosketch.h:105) has no run.

- **LogMonitor:** two threads of two streams each, two batches per thread,
  and scans reporting 0 or 1 matches or failing. Eight pattern files take
  every return of `parseFile()` and `databasesFromFile()`, the `std::stoi`
  exception, and a valid file. Every failure point is
  taken by some thread, both before and after the other thread's
  `setup_done`.
- **PcapGenerator:** `Mss` = 2 for 1472, and every log of up to five
  bytes over text, newline and zero bytes (364 logs). These logs cover:
  - packets that split a line, and a short last packet;
  - text after the last newline;
  - fewer lines than streams, so that `line_offset` is 0;
  - a zero byte before, inside and after a line.
  With `NB_SRC` and `NB_DST` in 0..3, the inputs also reach both SIGFPEs,
  and destination counts that both are and are not multiples of the
  source count.

## Fairness

- `MaglevTable` assumes weak fairness on its single thread.
- `DpdkMaglev` puts weak fairness on each lcore's step and on `main()`'s
  setup and return. DPDK lcores are pinned, busy-polling threads that never block.
- `PktCopy` puts weak fairness on the socket thread (pinned,
  busy-polling), on `main()`, and on the NIC finishing a transmission.
- `NitroSketch` puts weak fairness on the socket thread and on `main()`.
- `LogMonitor` puts weak fairness on each worker thread and on `main()`.
- `PcapGenerator` is one thread that never waits. It has weak fairness.
- The NIC and the signal get no fairness: traffic and shutdown may never
  come.

## Not modelled

- The 2^16-backend case of `MaglevTable`. With that many backends, index
  65535 truncates to the 0xffff sentinel and `setup()`'s assert fires
  (maglev.hpp:225), where spec 4.1 asks for `TooManyBackends`. The module
  can express this case, but no run in the current set checks it.

- The inside of `port_init()`. `MainSetup` keeps only its result
  (`PortInitResults`). A failure of it, or of the port count or mempool
  checks, ends in `rte_exit()`.
  `q_per_core` is the constant `QPerCore` > 0, so the division by zero of a
  `--q-per-core` of 0 (dpdk_maglev.cpp:233) is not reached. Statistics
  printing is not modelled.
- Parts of the pcap generator. Not modelled:
  - the usage check;
  - an unreadable `LOG_FILE`, where `tellg()` gives -1 and `new char[]`
    throws;
  - the header bytes and the pcap file format, which no property tells
    apart.

  A log with a zero byte loses the text after it or aborts (line 92).
  `SplitStep` models this, but no run checks it: it would need a
  violation run of its own.
- MICA (`src/mica2`). `netbench.cc`'s workers spend every iteration in a
  `DatagramClient` whose code is not in the repository. The `Enso` back
  end is configuration parsing, an assert-guarded endpoint table and a
  start/stop flag. `dpdk.h` is declarations only. The hazards are listed
  in PROJECT.json without a property:
  - in the DPDK build, `main()` returns without `rte_eal_mp_wait_lcore()`
    (netbench.cc:207);
  - with `lcore_count` 0, `&args[0]` is out of bounds (netbench.cc:197);
  - the endpoint bound is checked only by `assert` (enso_impl.h:57).
- The jhash and fbk hash functions, which are abstracted as arbitrary
  functions or all values.
- C++ object ownership. No code path moves or copies a `Maglev`.
- What `enso::send()` does with a batch whose allocation wraps the end of
  the huge page. The allocator maps the page twice (enso_userlib.cc:89-92)
  so that such a batch is contiguous in virtual memory; how the library
  hands it to the NIC is library code, not in this repository.
- The count-min bound over the `int32_t` counters. A property about the
  model's own counter would only restate the update of nitrosketch.h:105,
  and the overflow needs a violation run, for which no slot is left.
- Code the built programs do not compile or call:
  - NitroSketch's Count Sketch (`NITRO_CS` is commented out in
    `constants.h`), top-k, and `cm_change_rate()`;
  - `MinOfFive`, `MedianOfFive` and `MedianOfFiveL` in `geometric.h`,
    which only a query that the repository does not contain would use;
  - the timing test `test_log_monitor.cpp`, a sequential loop over
    `lookup()`.

## Plan for the remaining parts

1. **`PktCopy`** (done except the refinement): refine the allocator by
   an abstract FIFO of extents.
2. **`NitroSketch`** (the sampling loop and the charging rule are done):
   check the count-min estimate against a reference count.
3. **`LogMonitor`** (done for the main program and the pcap generator): add a property that no
   thread fails after `main()` starts statistics (enso_log_monitor.cpp:153,
   where only the first thread's setup is awaited). Add the `NB_CORES = 0`
   case.
4. **MICA**: a `Netbench` module for the thread lifecycle (the DPDK
   build's missing `rte_eal_mp_wait_lcore()`), if a run slot is freed.
5. **Freed run slots**: `maglev_table_sentinel` was dropped to stay within
   twelve runs. Later sittings should weigh it against violation runs for
   log-monitor threads that fail after
   statistics have started.

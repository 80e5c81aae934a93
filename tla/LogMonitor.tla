---------------------------- MODULE LogMonitor ----------------------------
(***************************************************************************)
(* The Hyperscan log monitor: src/log_monitor/src/enso_log_monitor.cpp     *)
(* with the LogMonitor class of log_monitor.hpp.                          *)
(*                                                                         *)
(* main() starts one run_echo_event() thread per core, pinning each; a    *)
(* thread creates its Enso device, one RX pipe per stream, and a          *)
(* LogMonitor whose setup() loads the databases, opens a Hyperscan stream *)
(* per pipe and allocates scratch.  Any failure calls exit(), ending the  *)
(* whole process.  The first thread to finish setup sets setup_done;      *)
(* main() then shows statistics until SIGINT clears keep_running and      *)
(* joins the threads.  Each thread scans every batch it receives with     *)
(* lookup() and prints its total when it leaves the loop.                 *)
(*                                                                         *)
(* Hyperscan and the Enso library are the environment: an operation      *)
(* either succeeds or fails, and a scan reports some number of matches.   *)
(***************************************************************************)
EXTENDS Naturals, Sequences
LOCAL INSTANCE SequencesExt

CONSTANTS
  NbCores,       \* NB_CORES: worker threads
  NbStreams,     \* NB_STREAMS: pipes and Hyperscan streams per thread
  PatternFiles,  \* REGEX_FILENAME: [readable, lines], lines a sequence of
                 \* LineKinds
  ScanCounts,    \* matches one hs_scan_stream() call may report
  ScanOutcomes,  \* results of hs_scan_stream(): "ok" or "error"
  MatchMod,      \* 2^64: nb_matches and match_count_ are uint64_t
  MaxBatches     \* bound on the batches one thread receives

ASSUME /\ NbCores \in Nat \ {0} /\ NbStreams \in Nat \ {0}
       /\ ScanCounts \subseteq Nat /\ ScanOutcomes \subseteq {"ok", "error"}

Threads == 0 .. NbCores - 1

(* What parseFile() makes of one line of the pattern file: skipped,       *)
(* a pattern Hyperscan compiles or rejects, or one of the parse errors.   *)
LineKinds == {"blank", "comment", "pattern", "bad_regex", "no_colon",
              "bad_id", "no_slash", "bad_flag"}

(* The first line parseFile() rejects (0 if none): lines are read in     *)
(* order and an empty or '#' line is skipped.                             *)
FirstBadLine(file) ==
  SelectInSeq(file.lines, LAMBDA l : l \in {"no_colon", "bad_id",
                                            "no_slash", "bad_flag"})

(* std::stoi() throws on an id that is not a number.                      *)
StoiThrows(file) ==
  /\ file.readable
  /\ FirstBadLine(file) # 0
  /\ file.lines[FirstBadLine(file)] = "bad_id"

(* parseFile() when it returns: -1 for an unreadable file or a line       *)
(* without ':', -2 for a line without a trailing '/', -3 for an           *)
(* unsupported flag (parseFlags() returns 0), else 0.                     *)
ParseFile(file) ==
  IF ~file.readable THEN -1
  ELSE LET i == FirstBadLine(file) IN
       IF i = 0 THEN 0
       ELSE CASE file.lines[i] = "no_colon" -> -1
              [] file.lines[i] = "no_slash" -> -2
              [] file.lines[i] = "bad_flag" -> -3

(* buildDatabase(): hs_compile_multi() fails, and buildDatabase() returns *)
(* nullptr, when a pattern does not compile or there is no pattern.       *)
BuildDatabase(file) ==
  /\ "pattern" \in ToSet(file.lines)
  /\ "bad_regex" \notin ToSet(file.lines)

(* databasesFromFile(): -1 when parseFile() fails, -2 when the streaming  *)
(* database does not build; the block database is built from the same     *)
(* patterns, so -3 only follows a compiler failure outside the model.     *)
DatabasesFromFile(file) ==
  LET p == ParseFile(file) IN
  IF p # 0 THEN p
  ELSE IF ~BuildDatabase(file) THEN -2 ELSE 0

VARIABLES
  proc,          \* "running", "exited" (exit()) or "aborted" (std::terminate)
  main_pc,       \* "spawn", "wait", "stats", "join", "returned"
  main_i,        \* core_id of the spawn loop, then index of the join loop
  tpc,           \* per thread: "idle", "create", "pipes", "setup", "loop", "done"
  pipe_idx,      \* stream_id of the RX pipe loop
  nb_batches,    \* stats->nb_batches
  nb_matches,    \* run_echo_event()'s nb_matches
  match_count,   \* log_monitor.match_count_
  keep_running, setup_done,
  regex_file     \* the contents of REGEX_FILENAME

vars == <<regex_file, proc, main_pc, main_i, tpc, pipe_idx, nb_batches, nb_matches,
          match_count, keep_running, setup_done>>

(* Fault variant of PipeLoopDone: the loop runs while stream_id <=        *)
(* nb_streams.                                                            *)
PipeLoopDoneLate(i) == i > NbStreams

(* for (stream_id = 0; stream_id < nb_streams; ++stream_id), after the    *)
(* pipe of stream_id is set up.                                           *)
PipeLoopDone(i) == i >= NbStreams

(* nb_matches += log_monitor.lookup(...): lookup() returns the count, or *)
(* -1 when the scan failed, added to a uint64_t.                          *)
LookupResult(count, outcome) ==
  IF outcome = "ok" THEN count ELSE MatchMod - 1

(* Fault variant of KeepRunningSeen: the flag is read once.               *)
KeepRunningHoisted == TRUE

(* while (keep_running) in run_echo_event(): the volatile flag.           *)
KeepRunningSeen == keep_running

Init ==
  /\ regex_file \in PatternFiles
  /\ proc = "running"
  /\ main_pc = "spawn"
  /\ main_i = 0
  /\ tpc = [t \in Threads |-> "idle"]
  /\ pipe_idx = [t \in Threads |-> 0]
  /\ nb_batches = [t \in Threads |-> 0]
  /\ nb_matches = [t \in Threads |-> 0]
  /\ match_count = [t \in Threads |-> 0]
  /\ keep_running = TRUE
  /\ setup_done = FALSE

(* exit(n) from any thread ends the process.                              *)
Exit ==
  /\ proc' = "exited"
  /\ UNCHANGED <<main_pc, main_i, tpc, pipe_idx, nb_batches, nb_matches,
                 match_count, keep_running, setup_done>>

(* Device::Create(nb_streams, core_id); exit(2) when it fails.            *)
CreateDevice(t) ==
  /\ tpc[t] = "create"
  /\ \/ tpc' = [tpc EXCEPT ![t] = "pipes"]
        /\ UNCHANGED <<proc, main_pc, main_i, pipe_idx, nb_batches,
                       nb_matches, match_count, keep_running, setup_done>>
     \/ Exit

(* One iteration of the pipe loop: AllocateRxPipe(), Bind() and the       *)
(* context; exit(3) when no pipe is left.                                 *)
AllocatePipe(t) ==
  /\ tpc[t] = "pipes"
  /\ \/ LET i == pipe_idx[t] + 1 IN
        /\ pipe_idx' = [pipe_idx EXCEPT ![t] = i]
        /\ tpc' = [tpc EXCEPT ![t] = IF PipeLoopDone(i) THEN "setup"
                                                         ELSE "pipes"]
        /\ UNCHANGED <<proc, main_pc, main_i, nb_batches, nb_matches,
                       match_count, keep_running, setup_done>>
     \/ Exit

(* LogMonitor log_monitor(...); log_monitor.setup(): databasesFromFile() *)
(* returns -1 on any error; then one hs_open_stream() per stream (-2) and *)
(* two hs_alloc_scratch() calls (-3, -4), which fail only when Hyperscan  *)
(* runs out of memory.  A non-zero result makes the thread call exit(4);  *)
(* an exception from std::stoi() leaves the thread and std::terminate     *)
(* aborts the process.  Otherwise setup_done = true.                      *)
SetupMonitor(t) ==
  /\ tpc[t] = "setup"
  /\ \/ /\ StoiThrows(regex_file)
        /\ proc' = "aborted"
        /\ UNCHANGED <<main_pc, main_i, tpc, pipe_idx, nb_batches,
                       nb_matches, match_count, keep_running, setup_done>>
     \/ /\ ~StoiThrows(regex_file)
        /\ DatabasesFromFile(regex_file) # 0
        /\ Exit
     \/ /\ ~StoiThrows(regex_file)
        /\ DatabasesFromFile(regex_file) = 0
        /\ \/ /\ tpc' = [tpc EXCEPT ![t] = "loop"]
              /\ setup_done' = TRUE
              /\ UNCHANGED <<proc, main_pc, main_i, pipe_idx, nb_batches,
                             nb_matches, match_count, keep_running>>
           \/ Exit

(* One iteration of the receive loop: NextRxPipeToRecv() returns a pipe,  *)
(* Recv() a batch, lookup() scans it (match_count_ += count, then -1 on a *)
(* failed scan), Free() and the statistics.  (When no pipe has data the   *)
(* loop continues without changing any state.)                            *)
Recv(t) ==
  /\ tpc[t] = "loop" /\ KeepRunningSeen
  /\ nb_batches[t] < MaxBatches
  /\ \E count \in ScanCounts, outcome \in ScanOutcomes :
       /\ match_count' = [match_count EXCEPT ![t] = (@ + count) % MatchMod]
       /\ nb_matches' =
            [nb_matches EXCEPT ![t] = (@ + LookupResult(count, outcome))
                                       % MatchMod]
  /\ nb_batches' = [nb_batches EXCEPT ![t] = @ + 1]
  /\ UNCHANGED <<proc, main_pc, main_i, tpc, pipe_idx, keep_running,
                 setup_done>>

(* ~LogMonitor(): hs_close_stream() on each stream, hs_free_database()   *)
(* on both databases and hs_free_scratch(); any of them failing calls     *)
(* std::terminate.                                                         *)
CloseMonitor(t) ==
  \/ tpc' = [tpc EXCEPT ![t] = "done"] /\ UNCHANGED proc
  \/ proc' = "aborted" /\ UNCHANGED tpc

(* keep_running is false: print the total and return, destroying the     *)
(* LogMonitor.                                                             *)
ThreadEnd(t) ==
  /\ tpc[t] = "loop" /\ ~KeepRunningSeen
  /\ CloseMonitor(t)
  /\ UNCHANGED <<main_pc, main_i, pipe_idx, nb_batches, nb_matches,
                 match_count, keep_running, setup_done>>

ThreadStep(t) ==
  /\ proc = "running" /\ UNCHANGED regex_file
  /\ \/ CreateDevice(t) \/ AllocatePipe(t) \/ SetupMonitor(t)
     \/ Recv(t) \/ ThreadEnd(t)

(* One iteration of main()'s thread loop: emplace_back starts the thread, *)
(* then set_core_id(), which fails when core_id is not a CPU the process *)
(* may run on; main() then returns 6 and destroying the joinable threads  *)
(* calls std::terminate.                                                  *)
MainSpawn ==
  /\ main_pc = "spawn"
  /\ tpc' = [tpc EXCEPT ![main_i] = "create"]
  /\ \/ /\ main_i' = (main_i + 1) % NbCores
        /\ main_pc' = IF main_i + 1 = NbCores THEN "wait" ELSE "spawn"
        /\ UNCHANGED proc
     \/ /\ proc' = "aborted"
        /\ UNCHANGED <<main_pc, main_i>>
  /\ UNCHANGED <<pipe_idx, nb_batches, nb_matches, match_count,
                 keep_running, setup_done>>

(* for (auto& thread : threads) thread.join(), after joining thread i.     *)
JoinLoopDone(i) == i + 1 = NbCores

(* while (!setup_done) continue; then show_stats() until keep_running is *)
(* false; then join every thread in order and return 0.                   *)
MainStep ==
  /\ \/ main_pc = "wait" /\ setup_done /\ main_pc' = "stats"
        /\ UNCHANGED main_i
     \/ main_pc = "stats" /\ ~keep_running /\ main_pc' = "join"
        /\ UNCHANGED main_i
     \/ /\ main_pc = "join" /\ tpc[main_i] = "done"
        /\ main_i' = (main_i + 1) % NbCores
        /\ main_pc' = IF JoinLoopDone(main_i) THEN "returned" ELSE "join"
  /\ UNCHANGED <<proc, tpc, pipe_idx, nb_batches, nb_matches, match_count,
                 keep_running, setup_done>>

MainThread ==
  /\ proc = "running" /\ UNCHANGED regex_file
  /\ MainSpawn \/ MainStep

(* int_handler(): keep_running = false.                                   *)
Signal ==
  /\ proc = "running" /\ keep_running
  /\ keep_running' = FALSE
  /\ UNCHANGED <<regex_file, proc, main_pc, main_i, tpc, pipe_idx, nb_batches,
                 nb_matches, match_count, setup_done>>

Next == MainThread \/ Signal \/ \E t \in Threads : ThreadStep(t)

(* Worker threads are pinned and busy-poll; main() sleeps and wakes.      *)
(* SIGINT may never come.                                                 *)
Spec == Init /\ [][Next]_vars /\ WF_vars(MainThread)
          /\ \A t \in Threads : WF_vars(ThreadStep(t))

-----------------------------------------------------------------------------
TypeOK ==
  /\ proc \in {"running", "exited", "aborted"}
  /\ main_pc \in {"spawn", "wait", "stats", "join", "returned"}
  /\ main_i \in Threads
  /\ tpc \in [Threads -> {"idle", "create", "pipes", "setup", "loop", "done"}]
  /\ pipe_idx \in [Threads -> 0 .. NbStreams]
  /\ nb_batches \in [Threads -> 0 .. MaxBatches]
  /\ nb_matches \in [Threads -> 0 .. MatchMod - 1]
  /\ match_count \in [Threads -> 0 .. MatchMod - 1]
  /\ keep_running \in BOOLEAN /\ setup_done \in BOOLEAN
  /\ regex_file \in PatternFiles

(* After SIGINT every thread leaves its receive loop and main() joins     *)
(* them all and returns, unless the process has already exited or         *)
(* aborted.                                                               *)
ShutdownCompletes ==
  ~keep_running ~> (main_pc = "returned" \/ proc # "running")
=============================================================================

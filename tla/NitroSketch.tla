---------------------------- MODULE NitroSketch ----------------------------
(***************************************************************************)
(* The NitroSketch monitor: src/nitrosketch/enso_nitrosketch.cpp with the  *)
(* count-min NitroSketch of nitrosketch.h, built as constants.h selects:   *)
(* NITRO_CMS and FASTRAND_GEO, without TOPK.                               *)
(*                                                                         *)
(* cm_init() fills geoArr with geometric draws and starts a walk over      *)
(* (packet, row) positions: position nextUpdate * CM_ROW_NO +              *)
(* line_to_update is the next to sample.  For every packet the socket     *)
(* thread counts pkt_count and, for an IPv4 packet, runs cm_processing()   *)
(* while pkt_count >= nextUpdate: add gap to the packet's counter in row   *)
(* line_to_update and step the walk by the next geoArr value.  main()      *)
(* waits for setup_done, prints statistics while keep_running and joins.   *)
(*                                                                         *)
(* Widths are scaled: NextUpdateMod for the uint32_t nextUpdate, GeoLen    *)
(* for the 2^16 entries of geoArr indexed by the unsigned short geoIdx,    *)
(* CounterMod for the int32_t counters.  pkt_count is a uint64_t and does  *)
(* not wrap within MaxPkts.                                                *)
(***************************************************************************)
EXTENDS Naturals, Sequences, FiniteSets

CONSTANTS
  Rows,          \* CM_ROW_NO
  Cols,          \* CM_COL_NO
  Gap,           \* cm->gap = (int)(1.0 / 0.01)
  ColHash(_, _), \* XXH64(&key, 8, seed1[row]) % CM_COL_NO
  FlowKeys,      \* flow keys (src | dst << 32) of IPv4 packets
  NonIpv4,       \* a packet whose ether_type is not IPv4
  Batches,       \* batches PeekPkts() may return
  GeoValues,     \* values ran_geometric(0.01) may return
  GeoLen,        \* entries of geoArr (1 << 16)
  NextUpdateMod, \* 2^32
  CounterMod,    \* 2^32: int32_t counters wrap
  MaxPkts,       \* bound on pkt_count
  MaxZeroDraws   \* bound on the entries of geoArr that are 0

ASSUME /\ Rows \in Nat \ {0} /\ GeoLen \in Nat \ {0}
       /\ MaxZeroDraws \in 0 .. GeoLen - 1
       /\ NonIpv4 \notin FlowKeys
       /\ Batches \subseteq Seq(FlowKeys \cup {NonIpv4})
       /\ GeoValues \subseteq Nat

RowIdx == 0 .. Rows - 1
ColIdx == 0 .. Cols - 1
GeoIdx == 0 .. GeoLen - 1

VARIABLES
  pc,              \* socket thread: "init", "loop", "pkt", "sample", "done",
                   \* or "segv" (the process died in setup)
  main_pc,         \* main thread: "wait", "stats", "join", "returned"
  keep_running, setup_done,
  pkt_count,       \* pkt_count
  batch,           \* packets of the current batch not yet looked at
  cur,             \* the packet being processed
  line_to_update,  \* cm.line_to_update
  next_update,     \* cm.nextUpdate
  sketch,          \* cm.sketch[row][col]
  geo_arr,         \* geoArr
  geo_idx,         \* geoIdx
  prev_ipv4        \* history: pkt_count of the last IPv4 packet whose
                   \* sampling loop has ended (0 before the first)

vars == <<pc, main_pc, keep_running, setup_done, pkt_count, batch, cur,
          line_to_update, next_update, sketch, geo_arr, geo_idx, prev_ipv4>>

(* Fault variant of SampleLoopTest: > written for >=.                     *)
SampleLoopTestStrict(count, nu) == count > nu

(* while (pkt_count >= cm.nextUpdate): uint64_t against uint32_t.         *)
SampleLoopTest(count, nu) == count >= nu

(* Fault variant of NextRow: the row index is not reduced mod CM_ROW_NO.  *)
NextRowUnreduced(l) == l

(* cm->line_to_update = line_to_update % CM_ROW_NO.                        *)
NextRow(l) == l % Rows

(* Fault variant of AdvanceNextUpdate: = written for +=.                  *)
AdvanceNextUpdateAssign(nu, l) == (l \div Rows) % NextUpdateMod

(* cm->nextUpdate += line_to_update / CM_ROW_NO, in uint32_t.              *)
AdvanceNextUpdate(nu, l) == (nu + l \div Rows) % NextUpdateMod

(* col_loc = XXH64(&key, 8, cm->seed1[line_to_update]) % CM_COL_NO.       *)
SampleCol(row, key) == ColHash(row, key)

(* ++geoIdx on an unsigned short.                                         *)
GeoNext(i) == (i + 1) % GeoLen

Init ==
  /\ pc = "init"
  /\ main_pc = "wait"
  /\ keep_running = TRUE
  /\ setup_done = FALSE
  /\ pkt_count = 0
  /\ batch = <<>>
  /\ cur = NonIpv4
  /\ line_to_update = 0
  /\ next_update = 0
  /\ sketch = [r \in RowIdx |-> [c \in ColIdx |-> 0]]
  /\ geo_arr = [i \in GeoIdx |-> 0]
  /\ geo_idx = 0
  /\ prev_ipv4 = 0

(* Fault variant of KeepRunningSeen: the flag is read once, before the   *)
(* loop.                                                                  *)
KeepRunningHoisted == TRUE

(* while (likely(keep_running)): the volatile flag as the test reads it.   *)
KeepRunningSeen == keep_running

(* The contents geoArr may have: every entry a ran_geometric(0.01) draw, *)
(* k = log(u) / log(1 - p) + 1 converted to unsigned int.  When rand()    *)
(* returns 0, log(0) is -inf and the conversion of +inf is undefined; on  *)
(* x86 it gives 0.  Zero draws are rare (1 in RAND_MAX), hence the bound. *)
GeoArrays ==
  {arr \in [GeoIdx -> GeoValues] :
     Cardinality({j \in GeoIdx : arr[j] = 0}) <= MaxZeroDraws}

(* cm_init(): zeroed counters, geoArr filled with geometric draws, and   *)
(* the walk started at geoArr[++geoIdx] (no - 1, unlike cs_init).         *)
cm_init ==
  /\ \E arr \in GeoArrays :
       LET g == arr[GeoNext(geo_idx)] IN
       /\ geo_arr' = arr
       /\ line_to_update' = NextRow(g)
       /\ next_update' = (g \div Rows) % NextUpdateMod
  /\ geo_idx' = GeoNext(geo_idx)
  /\ sketch' = [r \in RowIdx |-> [c \in ColIdx |-> 0]]

(* The socket thread's setup: Device::Create(nb_queues) and a pipe per   *)
(* queue, cm_init(), then setup_done = 1.  Device::Create returns nullptr *)
(* on failure, which the code does not check: device->AllocateRxTxPipe()  *)
(* dereferences it and the process dies of SIGSEGV before setup_done.    *)
SocketSetup ==
  /\ pc = "init"
  /\ \/ /\ pc' = "segv"
        /\ UNCHANGED <<setup_done, line_to_update, next_update, sketch,
                       geo_arr, geo_idx>>
     \/ /\ cm_init
        /\ setup_done' = TRUE
        /\ pc' = "loop"
  /\ UNCHANGED <<main_pc, keep_running, pkt_count, batch, cur, prev_ipv4>>

(* NextRxTxPipeToRecv() returns a pipe and PeekPkts() a batch.  (When it *)
(* returns nullptr the loop continues without changing any state.)        *)
RecvBatch ==
  /\ pc = "loop" /\ KeepRunningSeen
  /\ \E b \in Batches :
       /\ pkt_count + Len(b) <= MaxPkts
       /\ batch' = b
  /\ pc' = "pkt"
  /\ UNCHANGED <<main_pc, keep_running, setup_done, pkt_count, cur,
                 line_to_update, next_update, sketch, geo_arr, geo_idx,
                 prev_ipv4>>

(* for (auto pkt : batch): pkt_count++, then the sampling loop if the     *)
(* packet is IPv4; the MAC swap changes nothing modelled.                 *)
NextPacket ==
  /\ pc = "pkt"
  /\ batch # <<>>
  /\ pkt_count' = pkt_count + 1
  /\ cur' = Head(batch)
  /\ batch' = Tail(batch)
  /\ pc' = IF Head(batch) = NonIpv4 THEN "pkt" ELSE "sample"
  /\ UNCHANGED <<main_pc, keep_running, setup_done, line_to_update,
                 next_update, sketch, geo_arr, geo_idx, prev_ipv4>>

(* while (pkt_count >= cm.nextUpdate) cm_processing(&cm, flow_key): add   *)
(* gap to the flow's counter in row line_to_update, then step the walk by *)
(* geoArr[++geoIdx] and split it into nextUpdate and line_to_update.      *)
Sample ==
  /\ pc = "sample"
  /\ SampleLoopTest(pkt_count, next_update)
  /\ LET row == line_to_update
         col == SampleCol(row, cur)
         gi  == GeoNext(geo_idx)
         l   == line_to_update + geo_arr[gi]
     IN /\ sketch' = [sketch EXCEPT ![row][col] = (@ + Gap) % CounterMod]
        /\ geo_idx' = gi
        /\ next_update' = AdvanceNextUpdate(next_update, l)
        /\ line_to_update' = NextRow(l)
  /\ UNCHANGED <<pc, main_pc, keep_running, setup_done, pkt_count, batch,
                 cur, geo_arr, prev_ipv4>>

(* The sampling loop's test fails: on to the next packet.                 *)
SampleDone ==
  /\ pc = "sample"
  /\ ~SampleLoopTest(pkt_count, next_update)
  /\ pc' = "pkt"
  /\ prev_ipv4' = pkt_count
  /\ UNCHANGED <<main_pc, keep_running, setup_done, pkt_count, batch, cur,
                 line_to_update, next_update, sketch, geo_arr, geo_idx>>

(* The batch is done: ConfirmBytes() and SendAndFree() return it.         *)
BatchDone ==
  /\ pc = "pkt"
  /\ batch = <<>>
  /\ pc' = "loop"
  /\ UNCHANGED <<main_pc, keep_running, setup_done, pkt_count, batch, cur,
                 line_to_update, next_update, sketch, geo_arr, geo_idx,
                 prev_ipv4>>

(* keep_running is 0: print_sketch() and the thread returns.              *)
SocketExit ==
  /\ pc = "loop" /\ ~KeepRunningSeen
  /\ pc' = "done"
  /\ UNCHANGED <<main_pc, keep_running, setup_done, pkt_count, batch, cur,
                 line_to_update, next_update, sketch, geo_arr, geo_idx,
                 prev_ipv4>>

SocketStep ==
  \/ SocketSetup \/ RecvBatch \/ NextPacket \/ Sample \/ SampleDone
  \/ BatchDone \/ SocketExit

(* int_handler(): keep_running = 0.                                       *)
Signal ==
  /\ keep_running
  /\ keep_running' = FALSE
  /\ UNCHANGED <<pc, main_pc, setup_done, pkt_count, batch, cur,
                 line_to_update, next_update, sketch, geo_arr, geo_idx,
                 prev_ipv4>>

(* main(): while (!setup_done) continue; the statistics loop while        *)
(* keep_running; socket_thread.join().                                    *)
MainStep ==
  /\ \/ main_pc = "wait" /\ setup_done /\ main_pc' = "stats"
     \/ main_pc = "stats" /\ ~keep_running /\ main_pc' = "join"
     \/ main_pc = "join" /\ pc = "done" /\ main_pc' = "returned"
  /\ UNCHANGED <<pc, keep_running, setup_done, pkt_count, batch, cur,
                 line_to_update, next_update, sketch, geo_arr, geo_idx,
                 prev_ipv4>>

Next == SocketStep \/ MainStep \/ Signal

(* The socket thread is pinned to its core and busy-polls; main() sleeps *)
(* and wakes.  SIGINT may never come.                                     *)
Spec == Init /\ [][Next]_vars /\ WF_vars(SocketStep) /\ WF_vars(MainStep)

-----------------------------------------------------------------------------
TypeOK ==
  /\ pc \in {"init", "loop", "pkt", "sample", "done", "segv"}
  /\ main_pc \in {"wait", "stats", "join", "returned"}
  /\ keep_running \in BOOLEAN /\ setup_done \in BOOLEAN
  /\ pkt_count \in 0 .. MaxPkts
  /\ line_to_update \in RowIdx
  /\ next_update \in 0 .. NextUpdateMod - 1
  /\ sketch \in [RowIdx -> [ColIdx -> 0 .. CounterMod - 1]]
  /\ geo_idx \in GeoIdx
  /\ prev_ipv4 \in 0 .. MaxPkts

(* The sampling loop of a packet ends: cm_processing() moves nextUpdate  *)
(* past pkt_count after finitely many samples, so the thread goes on to  *)
(* the next packet.                                                       *)
SampleLoopTerminates == pc = "sample" ~> pc = "pkt"

(* Which packet a sample is charged to: pkt_count is incremented before  *)
(* the test, so packet n owns the walk's slot n (and packet 1 slot 0 as   *)
(* well).  Every cm_processing() call takes the next walk position, whose *)
(* slot is nextUpdate, for the current IPv4 packet's flow; the slot must  *)
(* be at most pkt_count and after the slots of the previous IPv4 packet,  *)
(* so a sample lands either on its own packet or, when the packets of the *)
(* slots in between were not IPv4, on the first IPv4 packet after them.  *)
(* It fails if the loop leaves a position behind for a later packet.     *)
SampleChargedToOwedPacket ==
  [][pc = "sample" /\ geo_idx' # geo_idx =>
       /\ next_update <= pkt_count
       /\ prev_ipv4 < IF next_update = 0 THEN 1 ELSE next_update]_vars

(* After SIGINT the socket thread leaves its loop, prints the sketch, and *)
(* main() returns, unless the process died in setup.                      *)
ShutdownCompletes == ~keep_running ~> (main_pc = "returned" \/ pc = "segv")
=============================================================================

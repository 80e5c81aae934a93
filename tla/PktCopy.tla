------------------------------ MODULE PktCopy ------------------------------
(***************************************************************************)
(* The pktcopy echo server: src/pktcopy/enso_pktcpy.cc with the TX        *)
(* ring-buffer allocators of src/pktcopy/enso_userlib.cc.                  *)
(*                                                                         *)
(* The socket thread sets up its queues and kNumAllocators TX buffers,    *)
(* then loops while keep_running: it receives a batch, copies every       *)
(* packet into the current allocator (one allocate() per packet, rounded  *)
(* up to whole flits in uint16_t), sends the batch from the physical      *)
(* address the allocator had before the batch, saves the request in the  *)
(* tx_pending_requests ring and moves to the next allocator; then it      *)
(* frees, in order, the requests the library reports complete.  The main  *)
(* thread waits for setup_done, prints statistics while keep_running, and *)
(* joins the socket thread.  SIGINT clears keep_running.                  *)
(*                                                                         *)
(* The Enso library is the environment: a send waits while LibTxCapacity  *)
(* requests are on the NIC; the NIC completes them in order; get_        *)
(* completions() returns, and forgets, the count completed since the last *)
(* call.  Lengths are in bytes with the widths scaled: LenMod for 2^16    *)
(* and FlitSize for 64.                                                    *)
(***************************************************************************)
EXTENDS Naturals, Sequences, FiniteSets
LOCAL INSTANCE SequencesExt

CONSTANTS
  NbAllocators,  \* TXPacketQueueManager::kNumAllocators (16)
  BufSize,       \* kMaxBufferSize = kHugePageSize, one allocator's buffer
  MaxPending,    \* enso::kMaxPendingTxRequests; the ring has one slot more
  LibTxCapacity, \* requests the library lets wait on the NIC at once
  FlitSize,      \* 64
  LenMod,        \* 2^16: the width of pkt_len, nb_flits and pkt_aligned_len
  Batches,       \* batches recv_select() may return: sequences of pkt_len
  MaxBatches     \* bound on the batches received, to keep the model finite

ASSUME /\ NbAllocators \in Nat \ {0} /\ MaxPending \in Nat \ {0}
       /\ BufSize \in Nat \ {0} /\ BufSize % FlitSize = 0
       /\ LibTxCapacity \in 1 .. MaxPending
       /\ Batches \subseteq Seq(1 .. LenMod - 1) /\ <<>> \notin Batches

Allocators == 0 .. NbAllocators - 1
RingSlots == 0 .. MaxPending

VARIABLES
  pc,              \* socket thread: "init", "loop", "copy", "complete",
                   \* "done", "exited" (exit(2) or exit(4)) or "assert_failed"
  main_pc,         \* main thread: "wait", "stats", "join" or "returned"
  keep_running,    \* volatile keep_running
  setup_done,      \* volatile setup_done
  alloc_offset,    \* pd_allocators_[a].alloc_offset_
  free_capacity,   \* pd_allocators_[a].free_capacity_
  tx_alloc_rr_idx, \* allocator of the next batch
  recv_len,        \* length of the batch being copied
  processed_bytes, \* bytes of it copied so far
  phys_addr,       \* offset of the batch's send address in its buffer
  pkts,            \* pkt_len headers of the batch not yet copied
  tx_pending_requests, tx_pr_head, tx_pr_tail,
  nb_batches,      \* nb_batches
  nic_pending,     \* library: requests sent and not completed by the NIC
  unreported       \* library: completions get_completions has not returned

vars == <<pc, main_pc, keep_running, setup_done, alloc_offset, free_capacity,
          tx_alloc_rr_idx, recv_len, processed_bytes, phys_addr, pkts,
          tx_pending_requests, tx_pr_head, tx_pr_tail, nb_batches,
          nic_pending, unreported>>

(* pkt_aligned_len: ((pkt_len - 1) / 64 + 1) * 64 in uint16_t.            *)
PktAlignedLen(pkt_len) == ((((pkt_len - 1) \div FlitSize) + 1) * FlitSize) % LenMod

(* The bytes of a batch in the pipe: each packet takes whole flits.        *)
RecvLen(batch) ==
  FoldLeft(LAMBDA acc, l : acc + (((l - 1) \div FlitSize) + 1) * FlitSize,
           0, batch)

(* Fault variant of RingNext: the index is not reduced to the ring.      *)
RingNextUnwrapped(idx, n) == idx + n

(* A ring index advanced by n: (idx + n) % (kMaxPendingTxRequests + 1).   *)
RingNext(idx, n) == (idx + n) % (MaxPending + 1)

(* Fault variant of NextAlloc: tx_alloc_rr_idx is never advanced.         *)
NextAllocStuck(idx) == idx

(* tx_alloc_rr_idx = (tx_alloc_rr_idx + 1) % kNumAllocators.              *)
NextAlloc(idx) == (idx + 1) % NbAllocators

(* Fault variant of PendingRequest: the allocator is read after           *)
(* tx_alloc_rr_idx has moved on.                                          *)
PendingRequestNextAlloc(idx, len) ==
  [alloc_idx |-> NextAlloc(idx), length |-> len]

(* The tx_pending_request_t saved for a send.                             *)
PendingRequest(idx, len) == [alloc_idx |-> idx, length |-> len]

(* RingBufferMemoryAllocator::allocate() succeeds: free_capacity_ >= size.*)
CanAllocate(a, size) == free_capacity[a] >= size

(* allocate(): alloc_offset_ = (alloc_offset_ + size) % kMaxBufferSize.   *)
AllocateOffset(off, size) == (off + size) % BufSize

(* get_alloc_paddr(): buffer_paddr_ + alloc_offset_, as an offset into    *)
(* the allocator's buffer.                                                *)
AllocPaddr(a) == alloc_offset[a]

(* RingBufferMemoryAllocator::initialize() of every allocator, once the  *)
(* huge page is mapped twice and locked: free_capacity_ = buffer_size.    *)
InitializeAllocators == [a \in Allocators |-> BufSize]

(* Completions frees requests head first; deallocate() adds each length  *)
(* back to its allocator.                                                 *)
RECURSIVE Deallocate(_, _, _)
Deallocate(fc, head, n) ==
  IF n = 0 THEN fc
  ELSE LET req == tx_pending_requests[head] IN
       Deallocate([fc EXCEPT ![req.alloc_idx] = @ + req.length],
                  RingNext(head, 1), n - 1)

(* Fault variant of KeepRunningSeen: the flag is read once, before the   *)
(* loop, as if it were not volatile.                                       *)
KeepRunningHoisted == TRUE

(* while (keep_running): the volatile flag as the loop test reads it.      *)
KeepRunningSeen == keep_running

(* Fault variant of AfterSend: a batch's send goes straight back to the    *)
(* loop, and completions are only drained when nothing was received.      *)
AfterSendSkipCompletions == "loop"

(* After the send the same iteration drains the completions.              *)
AfterSend == "complete"

Init ==
  /\ pc = "init"
  /\ main_pc = "wait"
  /\ keep_running = TRUE
  /\ setup_done = FALSE
  /\ alloc_offset = [a \in Allocators |-> 0]
  /\ free_capacity = [a \in Allocators |-> 0]
  /\ tx_alloc_rr_idx = 0
  /\ recv_len = 0
  /\ processed_bytes = 0
  /\ phys_addr = 0
  /\ pkts = <<>>
  /\ tx_pending_requests = [s \in RingSlots |-> [alloc_idx |-> 0, length |-> 0]]
  /\ tx_pr_head = 0
  /\ tx_pr_tail = 0
  /\ nb_batches = 0
  /\ nic_pending = 0
  /\ unreported = 0

(* The socket thread's setup: nb_queues enso::socket() calls, any of which *)
(* may fail (exit(2) ends the process); then, per allocator,               *)
(* get_hugepage_fd() and initialize(), whose open, ftruncate, mmap and     *)
(* mlock failures end in assert(false); then setup_done = 1.               *)
SocketSetup ==
  /\ pc = "init"
  /\ \/ /\ pc' = "exited"
        /\ UNCHANGED <<setup_done, free_capacity>>
     \/ /\ pc' = "assert_failed"
        /\ UNCHANGED <<setup_done, free_capacity>>
     \/ /\ pc' = "loop"
        /\ free_capacity' = InitializeAllocators
        /\ setup_done' = TRUE
  /\ UNCHANGED <<main_pc, keep_running, alloc_offset, tx_alloc_rr_idx,
                 recv_len, processed_bytes, phys_addr, pkts,
                 tx_pending_requests, tx_pr_head, tx_pr_tail, nb_batches,
                 nic_pending, unreported>>

(* while (keep_running): recv_select() returns 0; go to the completions.  *)
RecvNothing ==
  /\ pc = "loop" /\ KeepRunningSeen
  /\ pc' = "complete"
  /\ UNCHANGED <<main_pc, keep_running, setup_done, alloc_offset,
                 free_capacity, tx_alloc_rr_idx, recv_len, processed_bytes,
                 phys_addr, pkts, tx_pending_requests, tx_pr_head,
                 tx_pr_tail, nb_batches, nic_pending, unreported>>

(* recv_select() returns a negative length: "Error receiving", exit(4).   *)
RecvError ==
  /\ pc = "loop" /\ KeepRunningSeen
  /\ pc' = "exited"
  /\ UNCHANGED <<main_pc, keep_running, setup_done, alloc_offset,
                 free_capacity, tx_alloc_rr_idx, recv_len, processed_bytes,
                 phys_addr, pkts, tx_pending_requests, tx_pr_head,
                 tx_pr_tail, nb_batches, nic_pending, unreported>>

(* recv_select() returns a batch; phys_addr = get_alloc_paddr() of the    *)
(* current allocator, read before any packet is allocated.                *)
RecvBatch ==
  /\ pc = "loop" /\ KeepRunningSeen
  /\ nb_batches < MaxBatches
  /\ \E batch \in Batches :
       /\ recv_len' = RecvLen(batch)
       /\ pkts' = batch
  /\ processed_bytes' = 0
  /\ phys_addr' = AllocPaddr(tx_alloc_rr_idx)
  /\ pc' = "copy"
  /\ UNCHANGED <<main_pc, keep_running, setup_done, alloc_offset,
                 free_capacity, tx_alloc_rr_idx, tx_pending_requests,
                 tx_pr_head, tx_pr_tail, nb_batches, nic_pending, unreported>>

(* One iteration of while (processed_bytes < recv_len): allocate          *)
(* pkt_aligned_len bytes and copy the packet.  allocate() returns nullptr *)
(* when free_capacity_ < size and the assert aborts.  pkt moves by        *)
(* pkt_aligned_len, so a length that wraps to 0 reads the same header     *)
(* again.                                                                 *)
CopyPacket ==
  /\ pc = "copy"
  /\ processed_bytes < recv_len
  /\ LET a    == tx_alloc_rr_idx
         size == PktAlignedLen(Head(pkts))
     IN \/ /\ ~CanAllocate(a, size)
           /\ pc' = "assert_failed"
           /\ UNCHANGED <<alloc_offset, free_capacity, processed_bytes, pkts>>
        \/ /\ CanAllocate(a, size)
           /\ alloc_offset' = [alloc_offset EXCEPT ![a] = AllocateOffset(@, size)]
           /\ free_capacity' = [free_capacity EXCEPT ![a] = @ - size]
           /\ processed_bytes' = processed_bytes + size
           /\ pkts' = IF size = 0 THEN pkts ELSE Tail(pkts)
           /\ UNCHANGED pc
  /\ UNCHANGED <<main_pc, keep_running, setup_done, tx_alloc_rr_idx, recv_len,
                 phys_addr, tx_pending_requests, tx_pr_head, tx_pr_tail,
                 nb_batches, nic_pending, unreported>>

(* The batch is copied: enso::send(phys_addr, recv_len), which waits      *)
(* while the NIC holds LibTxCapacity requests; save the request at        *)
(* tx_pr_tail, advance it without a check, and move to the next allocator.*)
SendBatch ==
  /\ pc = "copy"
  /\ processed_bytes >= recv_len
  /\ nic_pending < LibTxCapacity
  /\ nb_batches' = nb_batches + 1
  /\ nic_pending' = nic_pending + 1
  /\ tx_pending_requests' =
       [tx_pending_requests EXCEPT ![tx_pr_tail] =
          PendingRequest(tx_alloc_rr_idx, recv_len)]
  /\ tx_pr_tail' = RingNext(tx_pr_tail, 1)
  /\ tx_alloc_rr_idx' = NextAlloc(tx_alloc_rr_idx)
  /\ pc' = AfterSend
  /\ UNCHANGED <<main_pc, keep_running, setup_done, alloc_offset,
                 free_capacity, recv_len, processed_bytes, phys_addr, pkts,
                 tx_pr_head, unreported>>

(* get_completions(0), then the for loop: free the nb_tx_completions      *)
(* oldest requests; deallocate() asserts free_capacity_ <= kMaxBufferSize.*)
Completions ==
  /\ pc = "complete"
  /\ LET fc == Deallocate(free_capacity, tx_pr_head, unreported) IN
     /\ free_capacity' = fc
     /\ pc' = IF \E a \in Allocators : fc[a] > BufSize
                THEN "assert_failed" ELSE "loop"
  /\ tx_pr_head' = RingNext(tx_pr_head, unreported)
  /\ unreported' = 0
  /\ UNCHANGED <<main_pc, keep_running, setup_done, alloc_offset,
                 tx_alloc_rr_idx, recv_len, processed_bytes, phys_addr, pkts,
                 tx_pending_requests, tx_pr_tail, nb_batches, nic_pending>>

(* keep_running is 0 at the top of the loop: shut the sockets down.       *)
SocketExit ==
  /\ pc = "loop" /\ ~KeepRunningSeen
  /\ pc' = "done"
  /\ UNCHANGED <<main_pc, keep_running, setup_done, alloc_offset,
                 free_capacity, tx_alloc_rr_idx, recv_len, processed_bytes,
                 phys_addr, pkts, tx_pending_requests, tx_pr_head,
                 tx_pr_tail, nb_batches, nic_pending, unreported>>

SocketStep ==
  \/ SocketSetup \/ RecvNothing \/ RecvError \/ RecvBatch \/ CopyPacket
  \/ SendBatch \/ Completions \/ SocketExit

(* SIGINT: int_handler() sets keep_running = 0.                            *)
Signal ==
  /\ keep_running
  /\ keep_running' = FALSE
  /\ UNCHANGED <<pc, main_pc, setup_done, alloc_offset, free_capacity,
                 tx_alloc_rr_idx, recv_len, processed_bytes, phys_addr, pkts,
                 tx_pending_requests, tx_pr_head, tx_pr_tail, nb_batches,
                 nic_pending, unreported>>

(* The library: the NIC finishes the oldest request on it.               *)
NicComplete ==
  /\ nic_pending > 0
  /\ nic_pending' = nic_pending - 1
  /\ unreported' = unreported + 1
  /\ UNCHANGED <<pc, main_pc, keep_running, setup_done, alloc_offset,
                 free_capacity, tx_alloc_rr_idx, recv_len, processed_bytes,
                 phys_addr, pkts, tx_pending_requests, tx_pr_head,
                 tx_pr_tail, nb_batches>>

(* main(): while (!setup_done) continue; then the statistics loop runs    *)
(* while keep_running (it only reads counters); then join.               *)
MainStep ==
  /\ \/ main_pc = "wait" /\ setup_done /\ main_pc' = "stats"
     \/ main_pc = "stats" /\ ~keep_running /\ main_pc' = "join"
     \/ main_pc = "join" /\ pc = "done" /\ main_pc' = "returned"
  /\ UNCHANGED <<pc, keep_running, setup_done, alloc_offset, free_capacity,
                 tx_alloc_rr_idx, recv_len, processed_bytes, phys_addr, pkts,
                 tx_pending_requests, tx_pr_head, tx_pr_tail, nb_batches,
                 nic_pending, unreported>>

Next == SocketStep \/ MainStep \/ Signal \/ NicComplete

(* The socket thread is pinned and busy-polls; main spins or sleeps and   *)
(* wakes; the NIC eventually transmits what it was given.  SIGINT may     *)
(* never come.                                                            *)
Spec == /\ Init /\ [][Next]_vars
        /\ WF_vars(SocketStep) /\ WF_vars(MainStep) /\ WF_vars(NicComplete)

-----------------------------------------------------------------------------
(* Requests saved in the ring and not yet freed: those the library has   *)
(* not reported plus those on the NIC.                                    *)
InFlight == nic_pending + unreported


PendingBytes(a) ==
  FoldLeft(LAMBDA acc, k :
             LET req == tx_pending_requests[(tx_pr_head + k) % (MaxPending + 1)]
             IN acc + (IF req.alloc_idx = a THEN req.length ELSE 0),
           0, [k \in 1 .. InFlight |-> k - 1])

BatchBytes(a) ==
  IF pc = "copy" /\ a = tx_alloc_rr_idx THEN processed_bytes ELSE 0

TypeOK ==
  /\ pc \in {"init", "loop", "copy", "complete", "done", "exited",
             "assert_failed"}
  /\ main_pc \in {"wait", "stats", "join", "returned"}
  /\ keep_running \in BOOLEAN /\ setup_done \in BOOLEAN
  /\ alloc_offset \in [Allocators -> 0 .. BufSize - 1]
  /\ free_capacity \in [Allocators -> Nat]
  /\ tx_alloc_rr_idx \in Allocators
  /\ tx_pr_head \in RingSlots /\ tx_pr_tail \in RingSlots
  /\ tx_pending_requests \in [RingSlots -> [alloc_idx : Allocators,
                                            length : Nat]]
  /\ nb_batches \in 0 .. MaxBatches
  /\ nic_pending \in 0 .. LibTxCapacity

(* The tx_pending_requests ring never overruns: although tx_pr_tail      *)
(* advances without a full check, the requests saved and not yet freed    *)
(* never exceed its kMaxPendingTxRequests + 1 slots, because every loop   *)
(* iteration drains the completions after at most one send.               *)
PendingRingNoOverrun == InFlight <= MaxPending + 1

(* Every byte of every TX buffer is accounted for: free_capacity_ plus    *)
(* the lengths the ring will give back to that allocator plus what the    *)
(* current batch has allocated is the buffer size, so deallocate() frees  *)
(* exactly what allocate() took, on the right allocator.                  *)
CapacityAccounted ==
  pc \in {"loop", "copy", "complete"} =>
    \A a \in Allocators :
      free_capacity[a] + PendingBytes(a) + BatchBytes(a) = BufSize

(* Neither assert of the copy loop fires: allocate() never returns        *)
(* nullptr and deallocate() never exceeds kMaxBufferSize.                 *)
NoAbort == pc # "assert_failed"

(* After SIGINT the socket thread leaves its loop and main() returns      *)
(* (unless the process exited or aborted first).                          *)
ShutdownCompletes ==
  ~keep_running ~> (main_pc = "returned" \/ pc \in {"exited", "assert_failed"})
=============================================================================

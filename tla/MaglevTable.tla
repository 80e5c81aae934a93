---------------------------- MODULE MaglevTable ----------------------------
(***************************************************************************)
(* Maglev::setup() of src/maglev/src/maglev.hpp: the construction of the  *)
(* lookup table.  The constructor fills hash_table_ with the sentinel      *)
(* 0xffff; setup() creates the per-core flow cache, computes one           *)
(* permutation row per backend (generate_permutations), fills the table    *)
(* round-robin (populate), and asserts that no slot kept the sentinel.    *)
(*                                                                         *)
(* The widths are scaled together: the code has kSize = 2^16 + 1, uint16   *)
(* table entries and uint32 arithmetic; a model with kSize = 2^k + 1 takes *)
(* EntryMod = 2^k and WordMod = 2^(2k), which keeps both the sentinel      *)
(* (EntryMod - 1) and the wrap of j * skip (WordMod = 1 mod kSize) where   *)
(* they are in the code.  One step of populate is one iteration of its     *)
(* inner while loop (a probe of a filled slot) or one claim of a slot.     *)
(***************************************************************************)
EXTENDS Naturals, FiniteSets

CONSTANTS
  kSize,            \* number of table slots, a prime (65537 in the code)
  WordMod,          \* modulus of uint32_t arithmetic (2^32 in the code)
  EntryMod,         \* modulus of the uint16_t table entries (2^16)
  NbBackendChoices, \* values nb_backends_ (backend_ips.size()) may take
  Hashes            \* pairs <<hash1, hash2>> rte_jhash_32b_2hashes may yield

ASSUME /\ kSize \in Nat /\ kSize > 2
       /\ WordMod \in Nat /\ EntryMod \in Nat /\ EntryMod > 1
       /\ NbBackendChoices \subseteq Nat
       /\ Hashes \subseteq (0 .. WordMod - 1) \X (0 .. WordMod - 1)

Slots == 0 .. kSize - 1
Sentinel == EntryMod - 1   \* 0xffff: marks a slot populate has not filled

VARIABLES
  pc,            \* where setup() is: "setup", "generate", "populate",
                 \* "check", "ready", "failed" or "assert_failed"
  nb_backends,   \* nb_backends_
  permutations,  \* permutations_[i][j]
  hash_table,    \* hash_table_[c]
  next,          \* populate's next[i]: cursor into backend i's row
  n,             \* populate's count of filled slots
  i              \* populate's loop index over backends

vars == <<pc, nb_backends, permutations, hash_table, next, n, i>>

Backends == 0 .. nb_backends - 1

(* Fault variant of PermutationRow: the reduction mod kSize is missing.  *)
PermutationRowUnreduced(offset, skip) ==
  [j \in Slots |-> (offset + ((j * skip) % WordMod)) % WordMod]

(* The permutation row of a backend, computed in uint32_t arithmetic.     *)
PermutationRow(offset, skip) ==
  [j \in Slots |-> ((offset + ((j * skip) % WordMod)) % WordMod) % kSize]

(* The slot populate reads for backend b: permutations_[b][next[b]].      *)
Candidate(b) == permutations[b][next[b]]

(* Fault variants of PopulateDone: populate() returns one claim early,  *)
(* or compares against a count it never reaches.                          *)
PopulateDoneEarly(cnt) == cnt = kSize - 1
PopulateDoneNever(cnt) == cnt = kSize + 1

(* populate()'s exit test after a claim: if (n == kSize) return.          *)
PopulateDone(cnt) == cnt = kSize

(* Fault variant of NextBackend: the round restarts at backend 1.         *)
NextBackendRestartAtOne(b) ==
  IF b + 1 < nb_backends THEN b + 1 ELSE 1 % nb_backends

(* The backend after b in populate()'s for loop, wrapped by while (true). *)
NextBackend(b) == (b + 1) % nb_backends

SlotCount(tbl, b) == Cardinality({c \in Slots : tbl[c] = b})

(* Maglev's constructor: hash_table_ all sentinel; setup() not yet run.   *)
Init ==
  /\ pc = "setup"
  /\ nb_backends \in NbBackendChoices
  /\ permutations = <<>>
  /\ hash_table = [c \in Slots |-> Sentinel]
  /\ next = <<>>
  /\ n = 0
  /\ i = 0

(* setup(): sched_getcpu() and rte_fbk_hash_create() either fail, and     *)
(* setup() returns the error, or the flow cache is created.               *)
SetupCreateCache ==
  /\ pc = "setup"
  /\ pc' \in {"generate", "failed"}
  /\ UNCHANGED <<nb_backends, permutations, hash_table, next, n, i>>

(* Fault variant of GeneratePermutations: skips[i] lacks the + 1, so a   *)
(* skip of 0 makes a row that repeats one slot.                           *)
GeneratePermutationsZeroSkip ==
  /\ pc = "generate"
  /\ \E h \in [Backends -> Hashes] :
       permutations' = [b \in Backends |->
                          PermutationRow(h[b][1] % kSize, h[b][2] % (kSize - 1))]
  /\ next' = [b \in Backends |-> 0]
  /\ n' = 0
  /\ i' = 0
  /\ pc' = "populate"
  /\ UNCHANGED <<nb_backends, hash_table>>

(* generate_permutations(), then the start of populate(): next[] all 0,   *)
(* n = 0, i = 0.                                                          *)
GeneratePermutations ==
  /\ pc = "generate"
  /\ \E h \in [Backends -> Hashes] :
       permutations' = [b \in Backends |->
                          PermutationRow(h[b][1] % kSize,
                                         (h[b][2] % (kSize - 1)) + 1)]
  /\ next' = [b \in Backends |-> 0]
  /\ n' = 0
  /\ i' = 0
  /\ pc' = "populate"
  /\ UNCHANGED <<nb_backends, hash_table>>

(* Fault variant of PopulateSkip: the while loop's test is dropped, so a *)
(* free candidate slot may be passed over.                                *)
PopulateSkipAny ==
  /\ pc = "populate"
  /\ nb_backends > 0
  /\ next[i] < kSize
  /\ next' = [next EXCEPT ![i] = @ + 1]
  /\ UNCHANGED <<pc, nb_backends, permutations, hash_table, n, i>>

(* populate(), inner while: the candidate slot is filled, advance next[i].*)
PopulateSkip ==
  /\ pc = "populate"
  /\ nb_backends > 0
  /\ next[i] < kSize
  /\ hash_table[Candidate(i)] # Sentinel
  /\ next' = [next EXCEPT ![i] = @ + 1]
  /\ UNCHANGED <<pc, nb_backends, permutations, hash_table, n, i>>

(* populate(): the candidate slot is free; backend i (truncated to uint16)*)
(* takes it; return once n reaches kSize, else go on with the next i.     *)
PopulateClaim ==
  /\ pc = "populate"
  /\ nb_backends > 0
  /\ next[i] < kSize
  /\ hash_table[Candidate(i)] = Sentinel
  /\ hash_table' = [hash_table EXCEPT ![Candidate(i)] = i % EntryMod]
  /\ next' = [next EXCEPT ![i] = @ + 1]
  /\ n' = n + 1
  /\ IF PopulateDone(n + 1)
       THEN pc' = "check" /\ i' = i
       ELSE pc' = pc /\ i' = NextBackend(i)
  /\ UNCHANGED <<nb_backends, permutations>>

(* setup()'s sanity check: assert(hash_table_[i] != 0xffff) for all i.    *)
CheckTable ==
  /\ pc = "check"
  /\ pc' = IF \E c \in Slots : hash_table[c] = Sentinel
             THEN "assert_failed" ELSE "ready"
  /\ UNCHANGED <<nb_backends, permutations, hash_table, next, n, i>>

Next ==
  \/ SetupCreateCache
  \/ GeneratePermutations
  \/ PopulateSkip
  \/ PopulateClaim
  \/ CheckTable

(* With no backends populate()'s for loop is empty and while (true) spins *)
(* without changing any state: no action is enabled in that state, and    *)
(* the behaviour stutters there forever.                                  *)
(* setup() runs on one thread that is never descheduled for good.         *)
Spec == Init /\ [][Next]_vars /\ WF_vars(Next)

-----------------------------------------------------------------------------
(* Reference definition: the table Maglev's paper describes.  Claims are  *)
(* made round-robin; claim k goes to backend k % nb, which takes the      *)
(* first slot of its row that no earlier claim took.  No cursors.         *)
RECURSIVE ReferenceFill(_, _, _)
ReferenceFill(perm, nb, k) ==
  IF k = 0 THEN [c \in Slots |-> Sentinel]
  ELSE LET tbl == ReferenceFill(perm, nb, k - 1)
           b   == (k - 1) % nb
           j   == CHOOSE j \in Slots :
                    /\ tbl[perm[b][j]] = Sentinel
                    /\ \A j2 \in 0 .. j - 1 : tbl[perm[b][j2]] # Sentinel
       IN [tbl EXCEPT ![perm[b][j]] = b]

-----------------------------------------------------------------------------
TypeOK ==
  /\ pc \in {"setup", "generate", "populate", "check", "ready", "failed",
             "assert_failed"}
  /\ nb_backends \in NbBackendChoices
  /\ hash_table \in [Slots -> 0 .. EntryMod - 1]
  /\ n \in 0 .. kSize
  /\ i \in Nat
  /\ pc \in {"populate", "check", "ready"} =>
       /\ permutations \in [Backends -> [Slots -> Slots]]
       /\ next \in [Backends -> 0 .. kSize]

(* populate() only reads permutations_[i][next[i]] inside the row: the    *)
(* cursor of the backend whose turn it is never runs past kSize - 1 while *)
(* a slot is still free.                                                  *)
PopulateReadsInsideRow ==
  pc = "populate" /\ nb_backends > 0 => next[i] < kSize

(* The sanity assert in setup() never fires: when populate() returns,     *)
(* every slot holds a backend index, none the 0xffff sentinel.            *)
NoSentinelAfterPopulate ==
  pc = "check" => \A c \in Slots : hash_table[c] # Sentinel

(* Uniform load (spec 8.2): once setup() succeeds every backend owns      *)
(* floor(kSize/N) or ceil(kSize/N) slots.                                 *)
Uniformity ==
  pc = "ready" =>
    \A b \in Backends :
      SlotCount(hash_table, b) \in {kSize \div nb_backends,
                                    (kSize + nb_backends - 1) \div nb_backends}

(* The cursors next[] are only an optimisation: the table populate()      *)
(* builds is the one the round-robin reference definition gives.          *)
MatchesReference ==
  pc = "ready" => hash_table = ReferenceFill(permutations, nb_backends, kSize)

(* populate() returns: once it starts it eventually reaches the check.    *)
PopulateReturns == pc = "populate" ~> pc = "check"
=============================================================================

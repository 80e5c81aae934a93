---------------------------- MODULE MaglevCache ----------------------------
(***************************************************************************)
(* Maglev's per-core flow cache: Maglev::get_cached_hash_value() and      *)
(* get_cached_hash_value_with_bucket() of src/maglev/src/maglev.hpp, which *)
(* reuse the DPDK rte_fbk_hash table.  A table entry is a 64-bit word      *)
(* {is_entry: 16, value: 16, key: 32}; a bucket is kEntriesPerBucket      *)
(* consecutive entries.  The code fills the first free entry of the       *)
(* bucket and, once the bucket is full, overwrites the entry after the    *)
(* newest one, whose index it keeps in the upper bits of the is_entry     *)
(* field of the bucket's first entry.                                     *)
(*                                                                         *)
(* The bucket of a key is rte_fbk_hash_get_bucket(): the table's hash      *)
(* function (FbkHash, a DPDK default) masked to the bucket count and      *)
(* shifted by log2(kEntriesPerBucket).                                    *)
(***************************************************************************)
EXTENDS Naturals, FiniteSets
LOCAL INSTANCE FiniteSetsExt
LOCAL INSTANCE Functions

CONSTANTS
  kSize,             \* size of Maglev's lookup table
  LookupTable,       \* hash_table_ after setup(): [0 .. kSize-1 -> backend]
  NbEntries,         \* hash_params.entries (1024 in the code)
  kEntriesPerBucket, \* 4 in the code
  Keys,              \* the 32-bit flow hashes lookups are made with
  FbkHash(_)         \* the rte_fbk_hash table's own hash of a key

NbBuckets == NbEntries \div kEntriesPerBucket
Entries == 0 .. NbEntries - 1

ASSUME /\ kEntriesPerBucket \in {1, 2, 4, 8, 16}
       /\ NbBuckets \in {1, 2, 4, 8, 16, 32, 64, 128, 256}
       /\ LookupTable \in [0 .. kSize - 1 -> Nat]

VARIABLES
  t,             \* ht->t[]: the entries
  used_entries,  \* ht->used_entries
  last_value     \* the value the last call returned (-1 before any call)

vars == <<t, used_entries, last_value>>

EmptyEntry == [is_entry |-> 0, value |-> 0, key |-> 0]

(* rte_fbk_hash_get_bucket(ht, hash): index of the bucket's first entry.  *)
(* The masks of the code (& (n - 1) with n a power of two) are written as *)
(* % n here and below.                                                    *)
GetBucket(key) == (FbkHash(key) % NbBuckets) * kEntriesPerBucket

(* new_entry: (hash << 32) | (hash_table_[hash % kSize] << 16) | 1.       *)
NewEntry(key) ==
  [is_entry |-> 1, value |-> LookupTable[key % kSize], key |-> key]

(* The for loop stops at the first entry that is unused or holds the key; *)
(* kEntriesPerBucket if there is none.                                    *)
ScanStop(tbl, key, bucket) ==
  Min({j \in 0 .. kEntriesPerBucket - 1 :
         tbl[bucket + j].is_entry = 0 \/ tbl[bucket + j].key = key}
      \cup {kEntriesPerBucket})

(* Fault variant of EvictSlot: the newest entry is overwritten.           *)
EvictSlotNewest(newest) == newest % kEntriesPerBucket

(* Fault variant of EvictSlot: the mask is dropped, so the index runs    *)
(* past the bucket.                                                       *)
EvictSlotUnmasked(newest) == newest + 1

(* entry_id = ((is_entry >> 1) + 1) & (kEntriesPerBucket - 1).            *)
EvictSlot(newest) == (newest + 1) % kEntriesPerBucket

(* Fault variant of HitValue: the value of the bucket's first entry.     *)
HitValueFirst(tbl, bucket, j) == tbl[bucket].value

(* return (t[bucket + i].entry >> 16) & 0xffff for the matching entry.   *)
HitValue(tbl, bucket, j) == tbl[bucket + j].value

(* Write new_entry at bucket + j and record j as the newest entry in the  *)
(* bucket's first is_entry: (j << 1) | 1.  When j = 0 the second write    *)
(* lands on the entry just written.                                       *)
WriteNewest(tbl, bucket, j, key) ==
  [tbl EXCEPT ![bucket + j] = NewEntry(key),
              ![bucket].is_entry = 2 * j + 1]

(* get_cached_hash_value_with_bucket(): the entries after the call, the   *)
(* value returned, and how many entries became used.                      *)
GetCachedHashValueWithBucket(tbl, key, bucket) ==
  LET j == ScanStop(tbl, key, bucket) IN
  CASE j < kEntriesPerBucket /\ tbl[bucket + j].is_entry = 0 ->
         [t |-> WriteNewest(tbl, bucket, j, key),
          value |-> NewEntry(key).value, filled |-> 1]
    [] j < kEntriesPerBucket ->
         [t |-> tbl, value |-> HitValue(tbl, bucket, j), filled |-> 0]
    [] OTHER ->
         [t |-> WriteNewest(tbl, bucket,
                            EvictSlot(tbl[bucket].is_entry \div 2), key),
          value |-> NewEntry(key).value, filled |-> 0]

(* get_cached_hash_value(ht, hash).                                       *)
GetCachedHashValue(tbl, key) ==
  GetCachedHashValueWithBucket(tbl, key, GetBucket(key))

(* rte_fbk_hash_create(): the table is zeroed.                            *)
Init ==
  /\ t = [e \in Entries |-> EmptyEntry]
  /\ used_entries = 0
  /\ last_value = -1

(* One call of get_cached_hash_value() with the flow hash key.            *)
Lookup(key) ==
  LET r == GetCachedHashValue(t, key) IN
  /\ t' = r.t
  /\ used_entries' = used_entries + r.filled
  /\ last_value' = r.value

Next == \E key \in Keys : Lookup(key)

Spec == Init /\ [][Next]_vars

-----------------------------------------------------------------------------
(* Refinement mapping to FlowCacheFifo.  Entries are filled in index      *)
(* order and never freed, so a bucket that is not full holds its keys in  *)
(* entries 0 .. cnt-1, oldest first; a full bucket's oldest entry is the  *)
(* one after the newest.                                                  *)
FifoOf(bk) ==
  LET base   == bk * kEntriesPerBucket
      cnt    == Cardinality({j \in 0 .. kEntriesPerBucket - 1 :
                               t[base + j].is_entry # 0})
      newest == t[base].is_entry \div 2
  IN IF cnt < kEntriesPerBucket
       THEN [j \in 1 .. cnt |-> t[base + j - 1].key]
       ELSE [j \in 1 .. kEntriesPerBucket |->
               t[base + ((newest + j) % kEntriesPerBucket)].key]

BucketIndex(key) == GetBucket(key) \div kEntriesPerBucket
TableBackend(key) == LookupTable[key % kSize]

Fifo == INSTANCE FlowCacheFifo
          WITH BucketIds <- 0 .. NbBuckets - 1,
               Depth <- kEntriesPerBucket,
               BucketOfKey <- BucketIndex,
               Backing <- TableBackend,
               fifo <- [bk \in 0 .. NbBuckets - 1 |-> FifoOf(bk)]

TypeOK ==
  /\ t \in [Entries -> [is_entry : 0 .. 2 * kEntriesPerBucket - 1,
                        value : Range(LookupTable) \cup {0},
                        key : Keys \cup {0}]]
  /\ used_entries \in 0 .. NbEntries
  /\ last_value \in Range(LookupTable) \cup {-1}

(* The cache behaves as spec 4.2 says: every call returns the backend the *)
(* lookup table gives the flow hash, and each bucket is a FIFO of the     *)
(* last kEntriesPerBucket distinct hashes that missed, so a flow's entry  *)
(* survives exactly kEntriesPerBucket - 1 later misses in its bucket.     *)
CacheRefinesFifo == Fifo!Spec
=============================================================================

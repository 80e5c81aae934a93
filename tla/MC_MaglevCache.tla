--------------------------- MODULE MC_MaglevCache ---------------------------
(* Model-checking instance of MaglevCache: two buckets of four entries    *)
(* (the code's kEntriesPerBucket); bucket 0 gets five flow hashes, one  *)
(* more than it holds, so misses evict; bucket 1 gets one (cfg Keys).  *)
EXTENDS MaglevCache

(* A populated table of kSize = 5 slots over three backends.              *)
MCLookupTable == [c \in 0 .. 4 |-> c % 3]

(* rte_fbk_hash's default hash stands in as the identity on small keys.   *)
MCFbkHash(key) == key
=============================================================================

--------------------------- MODULE FlowCacheFifo ---------------------------
(***************************************************************************)
(* What Maglev's per-core flow cache promises (spec 4.2): a lookup of a   *)
(* fingerprint returns the backend the lookup table gives it, and each    *)
(* bucket keeps the last Depth distinct fingerprints that missed in it,   *)
(* oldest first: a miss in a full bucket evicts the oldest.  A hit        *)
(* changes nothing.                                                       *)
(***************************************************************************)
EXTENDS Naturals, Sequences
LOCAL INSTANCE SequencesExt

CONSTANTS
  Keys,            \* fingerprints
  BucketIds,       \* buckets
  Depth,           \* entries per bucket
  BucketOfKey(_),  \* the bucket of a fingerprint
  Backing(_)       \* the backend the lookup table gives a fingerprint

VARIABLES
  fifo,        \* fifo[b]: the fingerprints cached in bucket b, oldest first
  last_value   \* the value the last lookup returned

Init ==
  /\ fifo = [b \in BucketIds |-> <<>>]
  /\ last_value = -1

Lookup(k) ==
  LET b == BucketOfKey(k) IN
  /\ last_value' = Backing(k)
  /\ fifo' = IF k \in ToSet(fifo[b]) THEN fifo
             ELSE IF Len(fifo[b]) < Depth
                    THEN [fifo EXCEPT ![b] = Append(@, k)]
                    ELSE [fifo EXCEPT ![b] = Append(Tail(@), k)]

Next == \E k \in Keys : Lookup(k)

Spec == Init /\ [][Next]_<<fifo, last_value>>
=============================================================================

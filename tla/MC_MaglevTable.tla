--------------------------- MODULE MC_MaglevTable ---------------------------
(* Model-checking instance of MaglevTable.  kSize = 5 = 2^2 + 1 with      *)
(* EntryMod = 2^2 and WordMod = 2^4 is the code's 65537 / uint16 / uint32 *)
(* scaled down with the same wrap structure.                              *)
EXTENDS MaglevTable

(* Every residue pair: hash1 covers all offsets, hash2 all skips.         *)
MCAllHashes == (0 .. kSize - 1) \X (0 .. kSize - 2)

(* The pairs whose row j * skip + offset stays below WordMod for every j: *)
(* in the code every skip below 65535 (and 65535 with offset < 65536).    *)
MCNoWrapHashes ==
  {h \in MCAllHashes :
     \A j \in Slots : (h[1] % kSize) + (j * ((h[2] % (kSize - 1)) + 1)) < WordMod}
(* Two pairs: enough where a property does not depend on the rows.      *)
MCTwoHashes == {<<0, 0>>, <<2, 1>>}
=============================================================================

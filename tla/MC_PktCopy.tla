----------------------------- MODULE MC_PktCopy -----------------------------
(* Model-checking instance of PktCopy.  Lengths are scaled by 16: a flit  *)
(* is 4 bytes and uint16_t wraps at 16, so pkt_len 13 .. 15 (the code's   *)
(* 65473 .. 65535) rounds to 0.                                            *)
EXTENDS PktCopy

(* Well-formed batches of one or two packets, of up to three quarters of *)
(* a buffer.                                                              *)
MCBatches == {<<3>>, <<5>>, <<3, 3>>, <<3, 1>>, <<3, 5>>}

(* The same, and a packet whose length field is near the uint16_t limit. *)
MCWrapBatches == {<<3>>, <<15>>}
=============================================================================

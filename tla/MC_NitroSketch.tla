--------------------------- MODULE MC_NitroSketch ---------------------------
(* Model-checking instance of NitroSketch: two rows of two columns, two   *)
(* flows and one non-IPv4 kind of packet, a four-entry geoArr.            *)
EXTENDS NitroSketch

MCFlowKeys == {"a", "b"}

(* XXH64 with two seeds: the flows collide in row 0 and not in row 1.    *)
MCColHash(row, key) == IF row = 0 THEN 0 ELSE IF key = "a" THEN 0 ELSE 1

MCBatches == {<<"a">>, <<"b", "a">>, <<"arp", "a">>}
=============================================================================

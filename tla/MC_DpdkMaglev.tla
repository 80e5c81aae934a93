--------------------------- MODULE MC_DpdkMaglev ----------------------------
(* Model-checking instance of DpdkMaglev: two lcores with two queues each, *)
(* three flows of which two share a queue, and one flow cache bucket, so  *)
(* that hits land on entries other than the first.                        *)
EXTENDS DpdkMaglev

MCFlows == {"f1", "f2", "f3"}

(* Flow hashes: three slots of the table, all in the one cache bucket.   *)
MCFlowHash(f) == CASE f = "f1" -> 0 [] f = "f2" -> 1 [] f = "f3" -> 2

(* RSS: f1 and f3 to lcore 0's two queues, f2 to lcore 1's first.        *)
MCRssQueue(f) == CASE f = "f1" -> 0 [] f = "f2" -> 2 [] f = "f3" -> 1

(* A table of five slots over three backends (MaglevTable builds such).  *)
MCLookupTable == [c \in 0 .. 4 |-> c % 3]

MCFbkHash(key) == key

(* Option lists: --help; --q-per-core given twice around --nb-backends,  *)
(* the last value (2) winning; an unknown option after a valid one.  (No *)
(* options would give q_per_core 1, which is not this model's.)          *)
MCOpt(o, v) == [opt |-> o, val |-> v]
MCArgvs ==
  { <<MCOpt("help", 0)>>,
    <<MCOpt("q-per-core", 1), MCOpt("nb-backends", 3), MCOpt("q-per-core", 2)>>,
    <<MCOpt("q-per-core", 2), MCOpt("soft-lb", 0)>> }

(* EAL's default: lcore l pinned to CPU l.                                *)
MCPinnedCpus(l) == {l}

(* Lcores whose CPU sets overlap (EAL --lcores '(0,1)@(0,1)').            *)
MCSharedCpus(l) == {0, 1}
=============================================================================

--------------------------- MODULE MC_LogMonitor ---------------------------
(* Model-checking instance of the two programs of src/log_monitor: the    *)
(* Enso log monitor and the pcap generator that makes its benchmark       *)
(* trace.  A behaviour launches one of them; the other keeps its initial  *)
(* state and takes no step, so the two state spaces add up rather than    *)
(* multiply.                                                               *)
EXTENDS LogMonitor, PcapGenerator
LOCAL INSTANCE SequencesExt

VARIABLE program   \* the binary that was launched

MCFile(ls) == [readable |-> TRUE, lines |-> ls]

MCUnreadable == [readable |-> FALSE, lines |-> <<>>]

(* Pattern files that reach every return of parseFile() and              *)
(* databasesFromFile(), and one valid file.                               *)
MCPatternFiles ==
  { MCUnreadable,
    MCFile(<<"comment", "blank", "pattern">>),
    MCFile(<<"comment">>),
    MCFile(<<"pattern", "bad_regex">>),
    MCFile(<<"pattern", "no_colon">>),
    MCFile(<<"pattern", "bad_id", "no_slash">>),
    MCFile(<<"no_slash">>),
    MCFile(<<"bad_flag">>) }

(* Every log of up to five bytes of text, newlines and zero bytes.        *)
MCLogs == BoundedSeq({"a", NL, NUL}, 5)

Programs == {"enso_log_monitor", "generate_pcap_from_log"}

mc_vars == <<program, vars, pcap_vars>>

MCInit ==
  /\ program \in Programs
  /\ Init /\ PcapInit
  /\ program = "enso_log_monitor" => log = <<>> /\ nb_src = 1 /\ nb_dst = 1
  /\ program = "generate_pcap_from_log" => regex_file = MCUnreadable

MonitorStep(A) == program = "enso_log_monitor" /\ A /\ UNCHANGED <<program, pcap_vars>>

GeneratorStep == program = "generate_pcap_from_log" /\ PcapNext
                   /\ UNCHANGED <<program, vars>>

MCNext == MonitorStep(Next) \/ GeneratorStep

(* The fairness of LogMonitor's Spec and of PcapSpec, for the program     *)
(* that was launched.                                                     *)
MCSpec ==
  /\ MCInit /\ [][MCNext]_mc_vars
  /\ WF_mc_vars(MonitorStep(MainThread))
  /\ \A t \in Threads : WF_mc_vars(MonitorStep(ThreadStep(t)))
  /\ WF_mc_vars(GeneratorStep)
=============================================================================

--------------------------- MODULE PcapGenerator ---------------------------
(***************************************************************************)
(* The pcap generator: src/log_monitor/src/generate_pcap_from_log.cpp.    *)
(*                                                                         *)
(* main(NB_SRC, NB_DST, LOG_FILE, OUTPUT_PCAP) reads the whole log into a *)
(* buffer of buffer_size bytes, splits it into lines at '\n', and builds  *)
(* one stream buffer per destination that holds every line, starting at  *)
(* line i * (lines / NB_DST) and wrapping around.  It then writes one UDP *)
(* packet per destination for every mss bytes of buffer_size: packet j    *)
(* carries bytes [i, i + mss) of stream buffer j, from source address     *)
(* j / (NB_DST / NB_SRC).  The log monitor is benchmarked on this trace.  *)
(*                                                                         *)
(* The program is sequential, so each loop is an operator.  A byte is     *)
(* "a" (any text byte), "nl" ('\n') or "nul" (a zero byte); a byte of a   *)
(* new char[] that nothing wrote is Undef.  Headers, MAC addresses, time  *)
(* stamps and the pcap file format are left out.                          *)
(***************************************************************************)
EXTENDS Naturals, Sequences
LOCAL INSTANCE SequencesExt

CONSTANTS
  Mss,       \* kPktSize minus the headers and 4 (1472), scaled
  Logs,      \* contents of LOG_FILE: sequences of bytes
  NbSrcs,    \* values of NB_SRC
  NbDsts     \* values of NB_DST

NL == "nl"
NUL == "nul"
Undef == "undef"

ASSUME /\ Mss \in Nat \ {0}
       /\ Logs \subseteq Seq({"a", NL, NUL})
       /\ NbSrcs \subseteq Nat /\ NbDsts \subseteq Nat

(* std::string line(buf, line_begin, len): buf is not NUL-terminated, so   *)
(* the char* converts to a temporary std::string of strlen(buf) bytes,     *)
(* which ends at the first zero byte (or reads past the buffer, beyond    *)
(* every line, when there is none).                                        *)
CStr(buf) ==
  LET z == SelectInSeq(buf, LAMBDA b : b = NUL) IN
  IF z = 0 THEN buf ELSE SubSeq(buf, 1, z - 1)

(* line_offset = lines.size() / nb_streams                                 *)
LineOffset(lines, nb_streams) == Len(lines) \div nb_streams

(* Fault variant of StreamBuffer: sized by the bytes its lines fill.      *)
StreamBufferTrimmed(lines, size, i, nb_streams) ==
  LET n == Len(lines) IN
  FlattenSeq([j \in 1 .. n |->
    lines[((i * LineOffset(lines, nb_streams) + j - 1) % n) + 1]])

(* Stream buffer i: new char[buffer_size], then every line memcpy'd in    *)
(* order from line (i * line_offset + j) % lines.size().                   *)
StreamBuffer(lines, size, i, nb_streams) ==
  LET n == Len(lines)
      data == FlattenSeq([j \in 1 .. n |->
                lines[((i * LineOffset(lines, nb_streams) + j - 1) % n) + 1]])
  IN [k \in 1 .. size |-> IF k <= Len(data) THEN data[k] ELSE Undef]

(* src_offset = j / (nb_dst / nb_src)                                      *)
SrcOffset(j, nb_src, nb_dst) == j \div (nb_dst \div nb_src)

(* Fault variant of PayloadSize: one byte short of the buffer's end.       *)
PayloadSizeShort(i, size) == IF Mss < size - i THEN Mss ELSE size - i - 1

(* payload_size = std::min((uint64_t)mss, buffer_size - i)                 *)
PayloadSize(i, size) == IF Mss < size - i THEN Mss ELSE size - i

VARIABLES
  gen_pc,      \* "split", "buffers", "packets", or how main() ended:
               \* "returned", "aborted" (std::terminate), "sigfpe"
  log,         \* buf: the contents of LOG_FILE (buffer_size = Len(log))
  nb_src, nb_dst,
  lines,       \* the lines split so far
  line_begin,  \* the split loop's line_begin
  byte_i,      \* the split loop's i
  buffers,     \* the stream buffers built so far
  pkt_i, pkt_j,  \* the packet loop's i and j
  pcap         \* the packets pcap_dump() has written, in order

pcap_vars == <<gen_pc, log, nb_src, nb_dst, lines, line_begin, byte_i,
               buffers, pkt_i, pkt_j, pcap>>

(* main(): stoi() of NB_SRC and NB_DST, the log read into buf.             *)
PcapInit ==
  /\ gen_pc = "split"
  /\ log \in Logs /\ nb_src \in NbSrcs /\ nb_dst \in NbDsts
  /\ lines = <<>> /\ line_begin = 0 /\ byte_i = 0
  /\ buffers = <<>> /\ pkt_i = 0 /\ pkt_j = 0 /\ pcap = <<>>

(* One iteration of the split loop: at a '\n', the line from line_begin   *)
(* is built from the temporary std::string of strlen(buf) bytes, which    *)
(* throws out_of_range when line_begin is past its end and truncates the  *)
(* line when it ends early.  After the loop, buf is freed and             *)
(* line_offset = lines.size() / nb_streams raises SIGFPE for NB_DST = 0.   *)
SplitStep ==
  /\ gen_pc = "split"
  /\ IF byte_i < Len(log)
     THEN LET s == CStr(log) IN
          IF log[byte_i + 1] # NL
          THEN /\ byte_i' = byte_i + 1
               /\ UNCHANGED <<gen_pc, lines, line_begin>>
          ELSE IF line_begin > Len(s)
          THEN /\ gen_pc' = "aborted"
               /\ UNCHANGED <<lines, line_begin, byte_i>>
          ELSE /\ lines' = Append(lines, SubSeq(s, line_begin + 1,
                             IF byte_i < Len(s) THEN byte_i + 1 ELSE Len(s)))
               /\ line_begin' = byte_i + 1
               /\ byte_i' = byte_i + 1
               /\ UNCHANGED gen_pc
     ELSE /\ gen_pc' = IF nb_dst = 0 THEN "sigfpe" ELSE "buffers"
          /\ UNCHANGED <<lines, line_begin, byte_i>>
  /\ UNCHANGED <<log, nb_src, nb_dst, buffers, pkt_i, pkt_j, pcap>>

(* One iteration of the buffer loop: stream buffer Len(buffers).           *)
FillBuffer ==
  /\ gen_pc = "buffers"
  /\ buffers' = Append(buffers,
                       StreamBuffer(lines, Len(log), Len(buffers), nb_dst))
  /\ gen_pc' = IF Len(buffers) + 1 = nb_dst THEN "packets" ELSE "buffers"
  /\ UNCHANGED <<log, nb_src, nb_dst, lines, line_begin, byte_i, pkt_i,
                 pkt_j, pcap>>

(* One iteration of the inner packet loop: src_offset divides by          *)
(* nb_dst / nb_src (SIGFPE when it is 0); the packet carries bytes        *)
(* [i, i + payload_size) of buffers[j].  When i reaches buffer_size the    *)
(* dumper is closed, the buffers freed and main() returns 0.               *)
WritePacket ==
  /\ gen_pc = "packets"
  /\ IF pkt_i >= Len(log)
     THEN /\ gen_pc' = "returned"
          /\ UNCHANGED <<pkt_i, pkt_j, pcap>>
     ELSE IF nb_src = 0 \/ nb_dst \div nb_src = 0
     THEN /\ gen_pc' = "sigfpe"
          /\ UNCHANGED <<pkt_i, pkt_j, pcap>>
     ELSE /\ pcap' = Append(pcap,
                  [dst |-> pkt_j, src |-> SrcOffset(pkt_j, nb_src, nb_dst),
                   payload |-> [k \in 1 .. PayloadSize(pkt_i, Len(log)) |->
                                  buffers[pkt_j + 1][pkt_i + k]]])
          /\ pkt_j' = (pkt_j + 1) % nb_dst
          /\ pkt_i' = IF pkt_j + 1 = nb_dst THEN pkt_i + Mss ELSE pkt_i
          /\ UNCHANGED gen_pc
  /\ UNCHANGED <<log, nb_src, nb_dst, lines, line_begin, byte_i, buffers>>

PcapNext == SplitStep \/ FillBuffer \/ WritePacket

PcapSpec == PcapInit /\ [][PcapNext]_pcap_vars /\ WF_pcap_vars(PcapNext)

-----------------------------------------------------------------------------
PcapTypeOK ==
  /\ gen_pc \in {"split", "buffers", "packets", "returned", "aborted", "sigfpe"}
  /\ log \in Logs /\ nb_src \in NbSrcs /\ nb_dst \in NbDsts
  /\ lines \in Seq(Seq({"a", NL})) /\ line_begin \in 0 .. Len(log)
  /\ byte_i \in 0 .. Len(log)
  /\ buffers \in Seq([1 .. Len(log) -> {"a", NL, Undef}]) /\ pkt_i \in Nat
  /\ pkt_j \in Nat
  /\ pcap \in Seq([dst : Nat, src : Nat, payload : Seq({"a", NL, Undef})])

(* The payload bytes written for destination j, packet after packet.      *)
PayloadStream(j) ==
  LET mine == SelectSeq(pcap, LAMBDA p : p.dst = j) IN
  FlattenSeq([k \in DOMAIN mine |-> mine[k].payload])

(* What destination j should receive of a text log: the text up to the    *)
(* last '\n' rotated to begin at line j * (lines / NB_DST), then the      *)
(* bytes after that '\n', which no line carried, as never-written bytes.   *)
RotatedLog(j) ==
  LET nls == SetToSortSeq({k \in DOMAIN log : log[k] = NL}, <)
      n == Len(nls)
      body == IF n = 0 THEN <<>> ELSE SubSeq(log, 1, nls[n])
      m == IF n = 0 THEN 0 ELSE (j * (n \div nb_dst)) % n
      start == IF m = 0 THEN 0 ELSE nls[m]
  IN SubSeq(body, start + 1, Len(body)) \o SubSeq(body, 1, start)
     \o [k \in 1 .. Len(log) - Len(body) |-> Undef]

(* For a log without zero bytes, the packets written so far for each      *)
(* destination carry a prefix of its rotated log, and when main() returns *)
(* all of it: the packet loop steps by mss over all buffer_size bytes of   *)
(* every stream buffer, so the bytes after the last '\n' go out unwritten. *)
PacketsCarryRotatedLog ==
  NUL \notin ToSet(log) =>
    \A j \in 0 .. nb_dst - 1 :
      /\ IsPrefix(PayloadStream(j), RotatedLog(j))
      /\ gen_pc = "returned" => PayloadStream(j) = RotatedLog(j)

(* The usage line names NB_SRC the number of sources: every packet comes *)
(* from one of the NB_SRC addresses 192.168.0.0 + 0 .. NB_SRC - 1.  The   *)
(* source of destination j is j / (NB_DST / NB_SRC) (line 159), which     *)
(* reaches NB_SRC and beyond when NB_DST is not a multiple of NB_SRC.      *)
PacketSourcesWithinNbSrc ==
  \A k \in DOMAIN pcap : pcap[k].src < nb_src
=============================================================================

\* Two threads with two streams each,
\* scans that report 0 or 1 matches and may fail; uint64_t scaled to 4.
CONSTANTS
  NbCores = 2
  NbStreams = 2
  PatternFiles <- MCPatternFiles
  ScanCounts = {0, 1}
  ScanOutcomes = {"ok", "error"}
  MatchMod = 4
  MaxBatches = 2
  Mss = 2
  Logs <- MCLogs
  NbSrcs = {0, 1, 2, 3}
  NbDsts = {0, 1, 2, 3}
SPECIFICATION MCSpec
\* The process ends: by returning, by exit() or by std::terminate.
CHECK_DEADLOCK FALSE
INVARIANT TypeOK PcapTypeOK PacketsCarryRotatedLog
PROPERTY ShutdownCompletes

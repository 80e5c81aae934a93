\* NB_SRC and NB_DST range over 0 .. 3, so NB_DST is not always a multiple
\* of NB_SRC (NB_SRC 2, NB_DST 3); the monitor's constants as in LogMonitor.cfg.
CONSTANTS
  NbCores = 2
  NbStreams = 2
  PatternFiles <- MCPatternFiles
  ScanCounts = {0, 1}
  ScanOutcomes = {"ok", "error"}
  MatchMod = 4
  MaxBatches = 2
  Mss = 2
  Logs <- MCLogs
  NbSrcs = {0, 1, 2, 3}
  NbDsts = {0, 1, 2, 3}
SPECIFICATION MCSpec
\* The process ends: by returning, by exit() or by std::terminate.
CHECK_DEADLOCK FALSE
INVARIANT PacketSourcesWithinNbSrc

CONSTANTS
  Callers = {c1, c2}
  Worker = worker
  Nobody = nobody
  f0 = f0
  f1 = f1
  Freqs <- MCFreqs
  ZeroFreq = f0
  Torn = torn
  Firmwares = {TRUE, FALSE}
  Variants = {TRUE, FALSE}
  Removable = TRUE
  MaxErrors = 2
  FfoLimits = {0, 1, 10, 244, 245}
  SnapThresholds = {10000, 200000}
  Dials <- MCDials
  Deltas <- MCDeltas
SPECIFICATION MCSpec
INVARIANT WordWrittenInItsMode
INVARIANT OffFrequencyIsFlagged
INVARIANT PullInHasCanceller
INVARIANT WordWrittenWithItsTimer
INVARIANT PullsInAsAsked
PROPERTY ImplementsClock
PROPERTY PullInEnds
CHECK_DEADLOCK FALSE

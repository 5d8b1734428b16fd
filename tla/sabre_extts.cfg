CONSTANTS
  Plls = {p0}
  Clocks = {p0}
  Refs = {r0, r1}
  Lsb = lsb
  NoTrigger = none
  Callers = {c1, c2}
  Worker = worker
  Nobody = nobody
  MaxErrors = 1
SPECIFICATION FairSpec
INVARIANT ReaderIsAlone
INVARIANT EnabledIsPolledUnlessFailed
INVARIANT NoEventFromReadUnlessFailed
INVARIANT EventsFromOwnReference
PROPERTY CallsReturnUnlessStuck
PROPERTY StuckForEver
CHECK_DEADLOCK FALSE

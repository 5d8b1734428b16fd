CONSTANTS
  MAX_TOD = 2
  Clocks = {0, 1}
  Callers = {c1}
  Worker = worker
  Nobody = nobody
  Removable = TRUE
  MaxErrors = 1
SPECIFICATION FairSpec
INVARIANT EnabledIsPolled
INVARIANT PolledIsArmed
INVARIANT EventsAreNew
PROPERTY LatchedIsReported
CHECK_DEADLOCK FALSE

CONSTANTS
  Plls = {p0}
  Clocks = {p0}
  Refs = {r0, r1}
  Lsb = lsb
  NoTrigger = none
  Callers = {c1}
  Worker = worker
  Nobody = nobody
  MaxErrors = 0
SPECIFICATION FairSpec
PROPERTY PollingResumes
CHECK_DEADLOCK FALSE

CONSTANTS
  Clocks = {c1, c2}
  Times = {7}
  Deltas <- MCDeltas
  Second = 3
  Guard = 1
  Immediate = 1
  Torn = 50
  Never = Never
  MaxNow = 8
  MaxOps = 2
  MaxFailures = 2
SPECIFICATION TodSpec
INVARIANT ClockAsIntended
INVARIANT SettimeSets
INVARIANT AlignmentFollows
CHECK_DEADLOCK FALSE
SYMMETRY AlikeClocks

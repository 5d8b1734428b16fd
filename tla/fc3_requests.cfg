CONSTANTS
  FifoDepth = 2
  ClearsOnDisable = TRUE
  MaxMade = 4
  MaxFailures = 2
  MaxBinds = 2
  MaxRef = 1
  MaxClock = 2
  MaxPrio = 1
  Muxes <- MCMuxes
  ClockLists <- MCLists
  Unknown = unknown
SPECIFICATION FairFc3Spec
INVARIANT ModeIsKnown
INVARIANT OneShotIsFresh
INVARIANT FollowsAsAsked
PROPERTY RequestsReturn

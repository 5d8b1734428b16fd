CONSTANTS
  Drivers = {"idtcm", "idt82p33"}
  Last = 1
  Callers = {k1, k2}
  Extts = Extts
  Core = Core
  Nobody = Nobody
SPECIFICATION Spec
INVARIANT BoundIsComplete
INVARIANT CallsFindReady
INVARIANT QuietOnceGone
INVARIANT EventsToRegistered
INVARIANT OwnerIsNotHeldUp
CHECK_DEADLOCK FALSE
SYMMETRY AlikeCallers

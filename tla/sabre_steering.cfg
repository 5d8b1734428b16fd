CONSTANTS
  Callers = {c1, c2, c3}
  Freqs = {f0, f1}
  ZeroFreq = f0
  TornBase = torn
  KeepMode = TRUE
  MaxErrors = 2
SPECIFICATION Spec
INVARIANT ModeIsKnown
INVARIANT HoldoverLasts
INVARIANT HoldoverCanBeDisabled
PROPERTY ImplementsClock

CONSTANTS
  Callers = {c1}
  Freqs = {f0, f1}
  ZeroFreq = f0
  TornBase = torn
  KeepMode = FALSE
  MaxErrors = 0
SPECIFICATION Spec
INVARIANT HoldoverCanBeDisabled

\* Two clocks with two outputs each, both settings of the multiplexers and
\* both forms of the registers.
CONSTANTS
  c1 = c1
  c2 = c2
  Clocks = {c1, c2}
  OutputMask <- MCOutputMask
  Muxes <- MCMuxes
  PerOutputs = {8}
  Forms = {TRUE, FALSE}
  Times = {3}
  Deltas <- MCDeltas
  MaxNow = 2
  MaxOps = 3
  MaxErrors = 1
SPECIFICATION Spec
INVARIANT SetAsAsked
INVARIANT SuccessRestoresOutputs
CHECK_DEADLOCK FALSE

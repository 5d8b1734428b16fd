\* Two users and a PTP clock on one DPLL with six priorities and two groups.
SPECIFICATION Spec
CONSTANTS
  Users = {u1, u2}
  Clocks = {c1}
  Nobody = Nobody
  Units = {d1}
  Lists <- MCLists
  ImageBytes <- MCImageBytes
  NumRefs = 3
  NumSlots = 6
  MaxGroup = 2
  MaxRequests = 3
  MaxErrors = 1
SYMMETRY Alike
INVARIANT NoUpdateIsLost
INVARIANT PrioritiesAsAsked
CHECK_DEADLOCK FALSE

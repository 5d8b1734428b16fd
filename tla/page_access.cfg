CONSTANTS
  Clients = {c1, c2}
  Nobody = nobody
  Pages = {p0, p1}
  Offsets = {o0}
  Vals = {v0, v1}
  Nothing = nothing
  Pending = pending
  Failed = failed
  CachedAtProbe = nopage
  PowerUpPage = p0
  Reloadable = TRUE
  PageWriteLands = FALSE
  MaxErrors = 2
SPECIFICATION Spec
INVARIANT AccessOnItsPage
PROPERTY ImplementsFile
CHECK_DEADLOCK FALSE

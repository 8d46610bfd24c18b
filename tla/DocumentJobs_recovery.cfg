SPECIFICATION Spec
CONSTANTS
  c1 = c1
  c2 = c2
  j1 = j1
  j2 = j2
  j3 = j3
  d1 = d1
  d2 = d2
  d3 = d3
  None = None
  Conns = {c1, c2}
  Jobs = {j1, j2, j3}
  Docs = {d1, d2, d3}
  Access <- MCAccess
  Shape <- MCShape
  HostStates = {"paused", "completed"}
  MAX_DOCUMENT_JOBS = 2
INVARIANT WholeDocument
INVARIANT TranslationsKept
PROPERTY UpdatesAreAtomic

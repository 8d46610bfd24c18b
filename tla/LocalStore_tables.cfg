SPECIFICATION Spec
CONSTANTS
  Conns = {c1, c2}
  Profiles = {p1, p2}
  Models = {m1, m2}
  Keys <- MCKeys
  Libraries = {l1, l2, l3}
  Contents = {t1, t2}
  None = None
  Workloads <- MCWorkloads
  MaxTime = 2
  Versions <- MCVersions
  ERASING_VERSION = 2
  LATEST_SCHEMA_VERSION = 2
  MAX_ENTRIES = 2
  MAX_LIBRARIES = 2
INVARIANT OpenIsErased
INVARIANT ReferencesResolve

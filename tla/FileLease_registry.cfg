SPECIFICATION Spec
CONSTANTS
  Calls = {c1, c2}
  MAX_FILE_LEASES = 1
  MaxId = 2
SYMMETRY Symmetry
INVARIANT GrantedBytes
PROPERTY LeasesImplemented

SPECIFICATION Spec
CONSTANTS
  Candidates <- MCCandidates
  Constraints <- MCConstraints
  Contexts <- MCContexts
  MaxLength = 3
  I64Max = 5
CHECK_DEADLOCK FALSE
INVARIANT FailClosed
INVARIANT OrderIndependent
INVARIANT LowerEstimateFirst

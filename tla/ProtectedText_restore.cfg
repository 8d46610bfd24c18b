SPECIFICATION Spec
CONSTANTS
  Files <- MCFiles
  SourcesFor <- MCSourcesFor
  Drilled <- MCDrilled
  Framings <- MCFramings
  MaxPieces = 3
  MaxChunk = 10
  MaxEntries = 2
  MaxTerm = 3
  SourceLength = 2
CHECK_DEADLOCK FALSE
INVARIANT ShownIsRestored
INVARIANT ChunksAreWhole
INVARIANT GlossaryRoundTrip
INVARIANT DecodedIsSent
INVARIANT DeltasDoNotMatter
PROPERTY RefusalsAreRight

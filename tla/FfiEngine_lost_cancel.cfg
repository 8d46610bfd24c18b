SPECIFICATION Spec
CONSTANTS
  o1 = o1
  o2 = o2
  id1 = id1
  id2 = id2
  NoOp = NoOp
  Ops = {o1, o2}
  SecretOps = {o1, o2}
  OpIds = {id1, id2}
  OpId <- DistinctIds
  QueueCapacity = 1
  EventCapacity = 1
  MaxDeltas = 1
INVARIANT CancelSticks

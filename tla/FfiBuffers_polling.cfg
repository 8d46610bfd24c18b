SPECIFICATION FairSpec
CONSTANTS
  Pollers = {p1, p2}
  NoPoller = NoPoller
  MAX_OUTSTANDING_BUFFERS = 2
  QueueCapacity = 2
  IdSpace = 4
  MaxEvents = 5
INVARIANT SlotsConserved
INVARIANT NothingLost
PROPERTY EveryEventDelivered

CONSTANTS
  ann = ann
  bob = bob
  cid = cid
  Null = Null
  Client = {ann, bob, cid}
  Plans <- MCPlans
  Window = 1
  QueueSize = 1
  MaxClosed = 1
SPECIFICATION Spec
INVARIANT NoStaleClient
PROPERTY ImplementsChatRoom
PROPERTY MessagesAreRelayed
PROPERTY StopEnds
CHECK_DEADLOCK FALSE

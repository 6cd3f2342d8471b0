SPECIFICATION SendFairSpec
CONSTANTS
  p1 = p1
  p2 = p2
  p3 = p3
  Packet <- MCPacket
  Length <- MCLength
  Capacity = 2
INVARIANT NeverStranded
PROPERTY ImplementsStream
PROPERTY AcceptedIsSent
CHECK_DEADLOCK FALSE

SPECIFICATION Spec
CONSTANTS
  s1 = s1
  s2 = s2
  a = a
  b = b
  p1 = p1
  p2 = p2
  Subs <- MCSubs
  Topics <- MCTopics
  Wants <- MCWants
  Packets <- MCPackets
  Tokens = {1, 2}
  MaxArrivals = 3
INVARIANTS
  TypeOK
  EveryMessageOffered
  TablesMatchBroker
  PacketsAccounted
CHECK_DEADLOCK FALSE

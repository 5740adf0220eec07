SPECIFICATION FairSpec
CONSTANTS
  m1 = m1
  m2 = m2
  m3 = m3
  x = x
  y = y
  Msgs <- MCMsgs
  Exchange <- MCExchange
  Notifications <- MCNotifications
  Resources = {"r"}
  TicksPerSecond = 1
  Randoms <- MCRandoms
  MaxRetransmit = 2
  MaxLag = 1
  MaxSendErrors = 1
INVARIANTS
  TypeOK
  QueueIsUnanswered
PROPERTIES
  ImplementsTimers
  EveryMessageSettles
CHECK_DEADLOCK FALSE

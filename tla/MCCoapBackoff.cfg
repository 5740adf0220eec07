SPECIFICATION SilentSpec
CONSTANTS
  m1 = m1
  m2 = m2
  m3 = m3
  x = x
  y = y
  Msgs <- MCMsgs
  Exchange <- MCExchange
  Notifications <- MCNotifications
  Resources = {"r"}
  TicksPerSecond = 1
  Randoms <- MCRandoms
  MaxRetransmit = 2
  MaxLag = 0
  MaxSendErrors = 0
PROPERTY
  PatientSender
CHECK_DEADLOCK FALSE

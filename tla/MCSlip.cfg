SPECIFICATION Spec
CONSTANTS
  CRC16 <- MCCalculate
  Payloads <- MCPayloads
  Noise <- MCNoise
  MaxFrames = 3
  MaxDamage = 1
INVARIANTS
  TypeOK
  RoundTrip
  LineIsClean
  BufferFilled
  LossBounded
  ChangeDetected
CHECK_DEADLOCK FALSE

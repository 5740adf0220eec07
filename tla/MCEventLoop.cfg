SPECIFICATION Spec
CONSTANTS
  t1 = t1
  t2 = t2
  m1 = m1
  n1 = n1
  p1 = p1
  d1 = d1
  Main = Main
  Signal = Signal
  Free = Free
  Threads <- MCThreads
  Commands <- MCCommands
  Source <- MCSource
INVARIANTS
  TypeOK
  NoLostWakeup
  ReadNeverBlocks
  SynchronizerAlive
  PrimaryKept
  EndsOnRequest
PROPERTY
  ImplementsQueue

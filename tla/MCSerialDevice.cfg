SPECIFICATION FairSpec
CONSTANTS
  f1 = f1
  f2 = f2
  f3 = f3
  Frames <- MCFrames
  Size <- MCSize
  Modulus = 8
  MaxIoErrors = 2
  MaxCtlErrors = 1
INVARIANTS
  TypeOK
  ArmedWhilePending
  NeverWritesNothing
  NoInterleaving
  WholeFrames
PROPERTY
  EveryFrameLeaves

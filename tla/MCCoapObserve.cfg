SPECIFICATION FairSpec
CONSTANTS
  o1 = o1
  o2 = o2
  Observers <- MCObservers
  NotifyCon = FALSE
  MaxNon = 1
  MaxFail = 1
  MaxVersion = 4
  MaxOutstanding = 2
  MaxErrors = 2
INVARIANTS
  TypeOK
  NoChangeForgotten
PROPERTIES
  DroppedForSilence
  LastChangeArrives
CHECK_DEADLOCK FALSE

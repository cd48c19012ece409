SPECIFICATION FairSpec
CONSTANTS
  Paths = {p1, p2}
  NoPath = NoPath
  ItemSizes = {1, 3}
  MaxItems = 1
  MaxSize = 4
  Faults = {}
PROPERTIES
  WaitingIsRewarded
  RequestIsServed
  StopCompletes

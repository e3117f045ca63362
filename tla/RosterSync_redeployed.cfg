\* An event of the next deployment is pulled before its bundle is loaded.
SPECIFICATION FairSpec
CONSTANTS
  Deployment = {1, 2}
  First = 1
  Pushed = {2}
  Conflicting = {}
  Malformed = {}
  Listed <- NoneListed
  Last <- NoneAndTwo
  Page = 2
  None = None
  MaxFaults = 0
PROPERTIES
  PendingIsDecided
